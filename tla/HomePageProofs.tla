--------------------------- MODULE HomePageProofs ---------------------------
(***************************************************************************)
(* Proofs about HomePage and its slider for any number of pictures, menus  *)
(* and clicks.                                                             *)
(***************************************************************************)
EXTENDS HomePage, SumTheorems

SliderIInv == SliderTypeOK /\ DotIsShown

(* The slider starts empty.                                                *)
LEMMA SliderInitIInv == SliderInit => SliderIInv
  BY SliderAssumption
     DEF SliderAssumption, SliderInit, SliderIInv, SliderTypeOK, DotIsShown,
         NoPicture

(* An arrow leads from a picture to a picture, around both ends.           *)
LEMMA NextIndexInRange ==
  ASSUME immagini \in Nat, immagini > 0, NEW i \in Indices, NEW d \in {-1, 1}
  PROVE  NextIndex(i, d) \in Indices
  <1>1. i + d + immagini \in Nat
    BY DEF Indices
  <1>2. \A k \in Nat : k % immagini \in 0 .. immagini - 1
    OBVIOUS
  <1> QED
    BY <1>1, <1>2 DEF NextIndex, Indices

(* Putting a picture of the slider in its place keeps picture and dot      *)
(* together.                                                               *)
LEMMA MostraShows ==
  ASSUME SliderIInv, NEW i, Mostra(i), immagini' \in 1 .. MaxImages,
         i \in 0 .. immagini' - 1, stato' = "ready",
         frecce' \in Seq({-1, 1}), clicks' \in 0 .. MaxClicks,
         ultimo' \in 0 .. immagini' - 1
  PROVE  SliderIInv'
  <1>1. SliderTypeOK'
    <2>1. /\ dissolvenze' \in Nat
          /\ mostrata' \in [indice : Int, visibile : BOOLEAN]
      BY DEF Mostra, MostraImmagine, SliderIInv, SliderTypeOK
    <2>2. /\ indiceCorrente' = i /\ pallino' = i
      BY DEF Mostra, AggiornaPallini
    <2>3. /\ immagini' \in 0 .. MaxImages /\ immagini' > 0
          /\ i \in Nat /\ ultimo' \in Nat
      BY SliderAssumption DEF SliderAssumption
    <2>4. indiceCorrente' \in Indices' /\ ultimo' \in Indices'
      BY <2>2 DEF Indices
    <2> QED
      BY <2>1, <2>2, <2>3, <2>4 DEF SliderTypeOK
  <1>2. DotIsShown'
    BY DEF Mostra, MostraImmagine, AggiornaPallini, DotIsShown
  <1> QED
    BY <1>1, <1>2 DEF SliderIInv

(* Every step of the slider keeps the invariant.                           *)
LEMMA SliderNextIInv == SliderIInv /\ [SliderNext]_sliderVars => SliderIInv'
  <1> SUFFICES ASSUME SliderIInv, [SliderNext]_sliderVars PROVE SliderIInv'
    OBVIOUS
  <1> USE SliderAssumption DEF SliderAssumption
  <1>1. ASSUME NEW n \in 0 .. MaxImages, ImagesArrive(n) PROVE SliderIInv'
    <2>1. CASE n > 0
      <3>1. /\ Mostra(0) /\ stato' = "ready"
            /\ immagini' \in 1 .. MaxImages /\ 0 \in 0 .. immagini' - 1
        BY <1>1, <2>1 DEF ImagesArrive
      <3>2. /\ frecce' \in Seq({-1, 1}) /\ clicks' \in 0 .. MaxClicks
        BY <1>1 DEF ImagesArrive, SliderIInv, SliderTypeOK
      <3>3. ultimo' \in 0 .. immagini' - 1
        BY <1>1, <2>1 DEF ImagesArrive, SliderIInv, SliderTypeOK
      <3> QED
        BY <3>1, <3>2, <3>3, MostraShows
    <2>2. CASE n = 0
      <3>1. /\ immagini = 0 /\ immagini' = 0 /\ stato' = "ready"
            /\ UNCHANGED <<indiceCorrente, mostrata, pallino, dissolvenze,
                           frecce, clicks, ultimo>>
        BY <1>1, <2>2 DEF ImagesArrive, SliderIInv, SliderTypeOK
      <3>2. SliderTypeOK'
        BY <3>1 DEF SliderIInv, SliderTypeOK, Indices
      <3>3. DotIsShown'
        BY <3>1 DEF SliderIInv, DotIsShown, NoPicture
      <3> QED
        BY <3>2, <3>3 DEF SliderIInv
    <2> QED
      BY <2>1, <2>2
  <1>2. ASSUME NEW d \in {-1, 1}, Arrow(d) PROVE SliderIInv'
    BY <1>2 DEF Arrow, Click, SliderIInv, SliderTypeOK, DotIsShown, Indices
  <1>3. ASSUME NEW i \in Indices, Dot(i) PROVE SliderIInv'
    <2>1. /\ Mostra(i) /\ immagini' = immagini /\ stato' = stato
          /\ frecce' = frecce /\ ultimo' = i /\ clicks' \in 0 .. MaxClicks
      BY <1>3 DEF Dot, Click, SliderIInv, SliderTypeOK
    <2>2. immagini \in 1 .. MaxImages /\ i \in 0 .. immagini - 1
      BY DEF SliderIInv, SliderTypeOK, Indices
    <2> QED
      BY <2>1, <2>2, MostraShows DEF SliderIInv, SliderTypeOK
  <1>4. CASE ArrowTimer
    <2>1. immagini \in 1 .. MaxImages /\ Head(frecce) \in {-1, 1}
      BY <1>4 DEF ArrowTimer, SliderIInv, SliderTypeOK
    <2>2. NextIndex(indiceCorrente, Head(frecce)) \in Indices
      <3>1. immagini \in Nat /\ immagini > 0 /\ indiceCorrente \in Indices
        BY <2>1 DEF SliderIInv, SliderTypeOK
      <3> QED
        BY <2>1, <3>1, NextIndexInRange
    <2>3. frecce' \in Seq({-1, 1})
      BY <1>4 DEF ArrowTimer, TimersLeft, SliderIInv, SliderTypeOK
    <2> QED
      BY <1>4, <2>1, <2>2, <2>3, MostraShows
         DEF ArrowTimer, SliderIInv, SliderTypeOK, Indices
  <1>5. CASE FadeIn
    <2>1. /\ immagini > 0 /\ dissolvenze' \in Nat
          /\ UNCHANGED <<immagini, stato, indiceCorrente, pallino, frecce,
                         clicks, ultimo>>
      BY <1>5 DEF FadeIn, SliderIInv, SliderTypeOK
    <2>2. mostrata' = [mostrata EXCEPT !.visibile =
                         mostrata.visibile \/ dissolvenze = 1]
      BY <1>5 DEF FadeIn
    <2>3. /\ mostrata' \in [indice : Int, visibile : BOOLEAN]
          /\ mostrata'.indice = mostrata.indice
      BY <2>2 DEF SliderIInv, SliderTypeOK
    <2>4. SliderTypeOK'
      BY <2>1, <2>3 DEF SliderIInv, SliderTypeOK, Indices
    <2>5. DotIsShown'
      BY <2>1, <2>3 DEF SliderIInv, DotIsShown
    <2> QED
      BY <2>4, <2>5 DEF SliderIInv
  <1>6. CASE Unload
    <2>1. SliderTypeOK'
      BY <1>6 DEF Unload, Click, SliderIInv, SliderTypeOK, NoPicture
    <2>2. DotIsShown'
      BY <1>6 DEF Unload, DotIsShown, NoPicture
    <2> QED
      BY <2>1, <2>2 DEF SliderIInv
  <1>7. CASE UNCHANGED sliderVars
    BY <1>7 DEF sliderVars, SliderIInv, SliderTypeOK, DotIsShown, Indices
  <1> QED
    BY <1>1, <1>2, <1>3, <1>4, <1>5, <1>6, <1>7 DEF SliderNext, SliderStep

(* slider_addimage.js: the picture in the page, the highlighted dot and    *)
(* indiceCorrente agree after every click and every timer.                 *)
THEOREM SliderShowsItsDot == SliderSpec => [](SliderTypeOK /\ DotIsShown)
  BY SliderInitIInv, SliderNextIInv, PTL DEF SliderSpec, SliderIInv

-----------------------------------------------------------------------------
(* Arrows are counted modulo the number of pictures; without pictures      *)
(* there is nothing to count.                                              *)
Counted ==
  /\ spinte \in Int
  /\ immagini = 0 => spinte = 0
  /\ immagini > 0 =>
       \E k \in Int :
         indiceCorrente + SumFunction(frecce) = ultimo + spinte + k * immagini

(* An arrow's timer moves the index by one, up to a turn around the end.   *)
LEMMA NextIndexTurns ==
  ASSUME NEW n \in Nat, n > 0, immagini = n, NEW i \in 0 .. n - 1, NEW d \in {-1, 1}
  PROVE  \E j \in Int : NextIndex(i, d) = i + d + j * n
  <1>1. NextIndex(i, d) = (i + d + n) % n
    BY DEF NextIndex
  <1>2. \A m \in Int : m = n * (m \div n) + (m % n) /\ m \div n \in Int
    OBVIOUS
  <1> DEFINE m == i + d + n
             j == 1 - m \div n
  <1>3. m \in Int /\ m = n * (m \div n) + (m % n) /\ m \div n \in Int
    BY <1>2
  <1>4. j \in Int
    BY <1>3
  <1>5. NextIndex(i, d) = i + d + j * n
    BY <1>1, <1>3
  <1> QED
    BY <1>4, <1>5

(* Every step of the slider keeps the count.                               *)
LEMMA CountedNext == SliderIInv /\ Counted /\ [SliderNext]_sliderVars => Counted'
  <1> SUFFICES ASSUME SliderIInv, Counted, [SliderNext]_sliderVars PROVE Counted'
    OBVIOUS
  <1>1. /\ immagini \in Nat /\ indiceCorrente \in Nat /\ ultimo \in Nat
        /\ spinte \in Int /\ frecce \in Seq({-1, 1})
        /\ immagini > 0 => indiceCorrente \in 0 .. immagini - 1
    BY SliderAssumption DEF SliderAssumption, SliderIInv, SliderTypeOK, Counted, Indices
  <1>2. frecce \in Seq(Int)
    BY <1>1
  <1>3. SumFunction(frecce) \in Int
    BY <1>2, SumOfSequence
  <1>4. ASSUME NEW n \in 0 .. MaxImages, ImagesArrive(n) PROVE Counted'
    <2>1. /\ immagini = 0 /\ frecce = <<>> /\ ultimo = 0 /\ spinte = 0
      BY <1>1, <1>4 DEF ImagesArrive, SliderIInv, SliderTypeOK, Counted
    <2>2. /\ immagini' = n /\ n \in Nat
          /\ frecce' = frecce /\ ultimo' = ultimo /\ spinte' = spinte
      BY <1>4, SliderAssumption DEF ImagesArrive, SliderAssumption
    <2>3. n > 0 => indiceCorrente' = 0
      BY <1>4 DEF ImagesArrive, Mostra
    <2>4. SumFunction(frecce') = 0
      BY <2>1, <2>2, SumOfEmpty
    <2>5. ASSUME n > 0
          PROVE  indiceCorrente' + SumFunction(frecce') =
                   ultimo' + spinte' + 0 * immagini'
      BY <2>1, <2>2, <2>3, <2>4, <2>5
    <2> QED
      BY <2>1, <2>2, <2>5 DEF Counted
  <1>5. ASSUME NEW d \in {-1, 1}, Arrow(d) PROVE Counted'
    <2>1. /\ immagini > 0 /\ frecce' = Append(frecce, d) /\ spinte' = spinte + d
          /\ UNCHANGED <<immagini, indiceCorrente, ultimo>>
      BY <1>5 DEF Arrow
    <2>2. d \in Int /\ SumFunction(frecce') = SumFunction(frecce) + d
      BY <1>2, <2>1, SumOfAppend
    <2>3. PICK k \in Int :
            indiceCorrente + SumFunction(frecce) = ultimo + spinte + k * immagini
      BY <2>1 DEF Counted
    <2>4. k * immagini \in Int
      BY <1>1
    <2>5. indiceCorrente' + SumFunction(frecce') = ultimo' + spinte' + k * immagini'
      <3> DEFINE a == SumFunction(frecce)
                 e == k * immagini
      <3>1. a \in Int /\ e \in Int /\ indiceCorrente + a = ultimo + spinte + e
        BY <1>3, <2>3, <2>4
      <3>2. indiceCorrente + (a + d) = ultimo + (spinte + d) + e
        <4> HIDE DEF a, e
        <4> QED
          BY <1>1, <2>2, <3>1
      <3> QED
        BY <2>1, <2>2, <3>2, Zenon
    <2>6. spinte' \in Int /\ immagini' > 0
      BY <1>1, <2>1, <2>2
    <2> QED
      BY <2>5, <2>6 DEF Counted
  <1>6. CASE ArrowTimer
    <2> DEFINE d == Head(frecce)
    <2>1. /\ frecce # <<>> /\ frecce' = Tail(frecce)
          /\ indiceCorrente' = NextIndex(indiceCorrente, d)
          /\ UNCHANGED <<immagini, ultimo, spinte>>
      BY <1>6 DEF ArrowTimer, TimersLeft, Mostra
    <2>2. immagini > 0 /\ d \in {-1, 1} /\ frecce' \in Seq(Int)
      BY <1>1, <2>1 DEF SliderIInv, SliderTypeOK
    <2>3. SumFunction(frecce) = d + SumFunction(frecce') /\ SumFunction(frecce') \in Int
      BY <1>2, <2>1, <2>2, SumOfTail, SumOfSequence
    <2>4. PICK j \in Int : indiceCorrente' = indiceCorrente + d + j * immagini
      BY <1>1, <2>1, <2>2, NextIndexTurns
    <2>5. PICK k \in Int :
            indiceCorrente + SumFunction(frecce) = ultimo + spinte + k * immagini
      BY <2>2 DEF Counted
    <2>6. /\ j * immagini \in Int /\ k * immagini \in Int
          /\ (k + j) * immagini = k * immagini + j * immagini
      BY <1>1
    <2>7. indiceCorrente' + SumFunction(frecce') =
            ultimo' + spinte' + (k + j) * immagini'
      <3> DEFINE b == SumFunction(frecce')
                 e == k * immagini
                 g == j * immagini
      <3>1. /\ b \in Int /\ e \in Int /\ g \in Int /\ d \in Int
            /\ indiceCorrente + (d + b) = ultimo + spinte + e
        BY <2>2, <2>3, <2>5, <2>6
      <3>2. indiceCorrente + d + g + b = ultimo + spinte + (e + g)
        <4> HIDE DEF b, d, e, g
        <4> QED
          BY <1>1, <3>1
      <3> QED
        BY <2>1, <2>4, <2>6, <3>2, Zenon
    <2>8. k + j \in Int
      OBVIOUS
    <2> QED
      BY <1>1, <2>1, <2>2, <2>7, <2>8 DEF Counted
  <1>7. ASSUME NEW i \in Indices, Dot(i) PROVE Counted'
    <2>1. /\ indiceCorrente' = i /\ ultimo' = i /\ spinte' = SumFunction(frecce)
          /\ immagini' = immagini /\ frecce' = frecce /\ i \in Int
      BY <1>1, <1>7 DEF Dot, Mostra, Indices
    <2>2. immagini > 0
      BY <1>1 DEF Indices
    <2>3. indiceCorrente' + SumFunction(frecce') = ultimo' + spinte' + 0 * immagini'
      BY <1>1, <1>3, <2>1
    <2> QED
      BY <1>3, <2>1, <2>2, <2>3 DEF Counted
  <1>8. CASE Unload
    BY <1>8 DEF Unload, Counted
  <1>9. CASE FadeIn \/ UNCHANGED sliderVars
    BY <1>9 DEF FadeIn, sliderVars, Counted
  <1> QED
    BY <1>4, <1>5, <1>6, <1>7, <1>8, <1>9 DEF SliderNext, SliderStep

(* slider_addimage.js: counted from the last dot, the index and the timers *)
(* that still run add up to the arrows clicked, however fast the clicks    *)
(* and however many pictures.                                              *)
THEOREM SliderCountsArrows == SliderSpec => []ArrowsAreCounted
  <1>1. SliderInit => Counted
    BY DEF SliderInit, Counted
  <1>2. SliderIInv /\ Counted => ArrowsAreCounted
    <2> SUFFICES ASSUME SliderIInv, Counted, immagini > 0
                 PROVE  (indiceCorrente + SumFunction(frecce) - (ultimo + spinte))
                          % immagini = 0
      BY DEF ArrowsAreCounted
    <2>1. /\ immagini \in Nat /\ indiceCorrente \in Nat /\ ultimo \in Nat
          /\ spinte \in Int /\ frecce \in Seq(Int)
      BY SliderAssumption DEF SliderAssumption, SliderIInv, SliderTypeOK, Counted
    <2>2. SumFunction(frecce) \in Int
      BY <2>1, SumOfSequence
    <2>3. PICK k \in Int :
            indiceCorrente + SumFunction(frecce) = ultimo + spinte + k * immagini
      BY DEF Counted
    <2>4. k * immagini \in Int /\ (k * immagini) % immagini = 0
      BY <2>1
    <2>5. PICK turns \in Int :
            /\ turns = k * immagini /\ turns % immagini = 0
            /\ indiceCorrente + SumFunction(frecce) = ultimo + spinte + turns
      BY <2>3, <2>4, Zenon
    <2>6. indiceCorrente + SumFunction(frecce) - (ultimo + spinte) = turns
      <3>1. indiceCorrente + SumFunction(frecce) = ultimo + spinte + turns
        BY <2>5
      <3> QED
        BY <2>1, <2>2, <3>1
    <2> QED
      BY <2>5, <2>6
  <1> QED
    BY <1>1, <1>2, CountedNext, SliderInitIInv, SliderNextIInv, PTL DEF SliderSpec

-----------------------------------------------------------------------------
(* With menus, theme and navigation the slider still is the slider: every  *)
(* step of a tab is one of its steps or leaves it alone.                   *)
LEMMA HomeStepIsSliderStep == [HomeNext]_homeVars => [SliderNext]_sliderVars
  <1> SUFFICES ASSUME [HomeNext]_homeVars PROVE [SliderNext]_sliderVars
    OBVIOUS
  <1>1. CASE SliderClicked
    BY <1>1 DEF SliderClicked, SliderNext, SliderStep
  <1>2. CASE SliderTimer
    BY <1>2 DEF SliderTimer, SliderNext, SliderStep
  <1>3. CASE Navigate \/ Logout
    BY <1>3 DEF Navigate, Logout, SliderNext
  <1>4. CASE LogoutLoaded \/ AfterLogout \/ ToggleTheme \/ OtherTab
    BY <1>4 DEF LogoutLoaded, AfterLogout, ToggleTheme, OtherTab
  <1>5. CASE \E m \in Menus : ClickMenu(m)
    BY <1>5 DEF ClickMenu
  <1>6. CASE ClickElsewhere
    BY <1>6 DEF ClickElsewhere
  <1>7. CASE UNCHANGED homeVars
    BY <1>7 DEF homeVars
  <1> QED
    BY <1>1, <1>2, <1>3, <1>4, <1>5, <1>6, <1>7 DEF HomeNext

(* The composition implements the specification of the slider.             *)
THEOREM HomeImplementsSlider == HomeSpec => SliderSpec
  <1>1. HomeInit => SliderInit
    BY DEF HomeInit
  <1> QED
    BY <1>1, HomeStepIsSliderStep, PTL DEF HomeSpec, SliderSpec

(* On the pages of the site picture and dot agree, whatever else is        *)
(* clicked.                                                                *)
THEOREM HomeShowsItsDot == HomeSpec => []DotIsShown
  BY HomeImplementsSlider, SliderShowsItsDot, PTL

-----------------------------------------------------------------------------
(* localStorage holds the theme chosen last, where "" stands for light,    *)
(* and a page that no other tab has overtaken shows it.                    *)
ThemeIInv ==
  /\ scuro \in BOOLEAN
  /\ altrove \in BOOLEAN
  /\ scelto \in {"light", "dark"}
  /\ tema \in {"", "light", "dark"}
  /\ tema = "dark" <=> scelto = "dark"
  /\ HasHeader /\ ~altrove => (scuro <=> tema = "dark")

(* Choosing, loading and logging out keep the theme in step.               *)
LEMMA ThemeNext == ThemeIInv /\ [HomeNext]_homeVars => ThemeIInv'
  <1> SUFFICES ASSUME ThemeIInv, [HomeNext]_homeVars PROVE ThemeIInv'
    OBVIOUS
  <1> USE DEF ThemeIInv, HasHeader
  <1>1. CASE SliderClicked
    BY <1>1 DEF SliderClicked
  <1>2. CASE SliderTimer
    BY <1>2 DEF SliderTimer, headerVars
  <1>3. CASE Navigate
    BY <1>3 DEF Navigate, Load
  <1>4. CASE Logout
    BY <1>4 DEF Logout
  <1>5. CASE LogoutLoaded
    BY <1>5 DEF LogoutLoaded, ResetTheme, SetTheme
  <1>6. CASE AfterLogout
    BY <1>6 DEF AfterLogout, Load
  <1>7. CASE ToggleTheme
    BY <1>7 DEF ToggleTheme, SetTheme, ThemeOf
  <1>8. CASE OtherTab
    BY <1>8 DEF OtherTab, SetTheme
  <1>9. ASSUME ClickElsewhere \/ \E m \in Menus : ClickMenu(m)
        PROVE  ThemeIInv'
    <2>1. UNCHANGED <<dove, scuro, tema, scelto, altrove>>
      BY <1>9 DEF ClickMenu, ClickElsewhere
    <2> QED
      BY <2>1
  <1>10. CASE UNCHANGED homeVars
    BY <1>10 DEF homeVars, headerVars
  <1> QED
    BY <1>1, <1>2, <1>3, <1>4, <1>5, <1>6, <1>7, <1>8, <1>9, <1>10 DEF HomeNext

(* A page shows the theme that was chosen last, in any tab or by a logout, *)
(* unless another tab has chosen after the page was loaded.                *)
THEOREM HomeTheme == HomeSpec => []ThemeIsTheChosenOne
  <1>1. HomeInit => ThemeIInv
    BY DEF HomeInit, ThemeIInv
  <1>2. ThemeIInv => ThemeIsTheChosenOne
    BY DEF ThemeIInv, ThemeIsTheChosenOne, ThemeOf
  <1> QED
    BY <1>1, <1>2, ThemeNext, PTL DEF HomeSpec

-----------------------------------------------------------------------------
(* What the header and the navigation add to the types of the slider.      *)
HeaderTypeOK ==
  /\ dove \in {"index", "impostazioni", "logout", "leaving"}
  /\ aperti \subseteq Menus
  /\ Cardinality(aperti) <= 1
  /\ dove # "index" => stato = "loading"

(* A click on a button leaves its own menu open, or none.                  *)
LEMMA AtMostOneMenu ==
  ASSUME NEW m, NEW S
  PROVE  Cardinality({m} \ S) <= 1
  <1>1. IsFiniteSet({m}) /\ Cardinality({m}) = 1
    BY FS_Singleton
  <1> QED
    BY <1>1, FS_Subset

(* Header and navigation keep their shape.                                 *)
LEMMA HeaderNext == HeaderTypeOK /\ [HomeNext]_homeVars => HeaderTypeOK'
  <1> SUFFICES ASSUME HeaderTypeOK, [HomeNext]_homeVars PROVE HeaderTypeOK'
    OBVIOUS
  <1> USE DEF HeaderTypeOK
  <1>e. Cardinality({}) = 0
    BY FS_EmptySet
  <1>1. CASE SliderClicked
    BY <1>1, <1>e DEF SliderClicked
  <1>2. CASE SliderTimer
    BY <1>2 DEF SliderTimer, headerVars
  <1>3. CASE Navigate
    BY <1>3, <1>e DEF Navigate, Load, Unload
  <1>4. CASE Logout
    BY <1>4, <1>e DEF Logout, Unload
  <1>5. CASE LogoutLoaded
    BY <1>5 DEF LogoutLoaded, ResetTheme, SetTheme, sliderVars
  <1>6. CASE AfterLogout
    BY <1>6, <1>e DEF AfterLogout, Load, sliderVars
  <1>7. CASE ToggleTheme
    BY <1>7, <1>e DEF ToggleTheme, SetTheme, ThemeOf, sliderVars
  <1>8. CASE OtherTab
    BY <1>8 DEF OtherTab, SetTheme, sliderVars
  <1>9. ASSUME NEW m \in Menus, ClickMenu(m) PROVE HeaderTypeOK'
    <2>1. Cardinality(aperti') <= 1
      BY <1>9, AtMostOneMenu DEF ClickMenu
    <2> QED
      BY <1>9, <2>1 DEF ClickMenu, sliderVars
  <1>10. CASE ClickElsewhere
    BY <1>10, <1>e DEF ClickElsewhere, sliderVars
  <1>11. CASE UNCHANGED homeVars
    BY <1>11 DEF homeVars, headerVars, sliderVars
  <1> QED
    BY <1>1, <1>2, <1>3, <1>4, <1>5, <1>6, <1>7, <1>8, <1>9, <1>10, <1>11
       DEF HomeNext

(* At most one menu of dropdown_botton.js is open, and the index of the    *)
(* slider stays within its pictures.                                       *)
THEOREM HomeTypes == HomeSpec => []HomeTypeOK
  <1>1. HomeInit => HeaderTypeOK
    <2>1. Cardinality({}) = 0
      BY FS_EmptySet
    <2>2. HomeInit => dove = "index" /\ aperti = {} /\ stato = "loading"
      BY DEF HomeInit, SliderInit
    <2>3. dove = "index" /\ aperti = {} => Cardinality(aperti) <= 1
      BY <2>1
    <2> QED
      BY <2>2, <2>3 DEF HeaderTypeOK
  <1>2. HomeInit => ThemeIInv
    BY DEF HomeInit, ThemeIInv
  <1>3. SliderTypeOK /\ HeaderTypeOK /\ ThemeIInv => HomeTypeOK
    BY DEF HeaderTypeOK, ThemeIInv, HomeTypeOK
  <1> QED
    BY <1>1, <1>2, <1>3, HeaderNext, ThemeNext, HomeImplementsSlider,
       SliderShowsItsDot, PTL DEF HomeSpec

(* On the pages of the site, too, no click on an arrow is lost or counted  *)
(* twice: leaving the page drops clicks and timers together.               *)
THEOREM HomeCountsArrows == HomeSpec => []ArrowsAreCounted
  BY HomeImplementsSlider, SliderCountsArrows, PTL

=============================================================================
