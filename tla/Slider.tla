-------------------------------- MODULE Slider --------------------------------
(***************************************************************************)
(* The slider of the home page (slider_addimage.js): pictures that arrive  *)
(* after the page, two arrows that act 300 ms after the click, dots that   *)
(* act at once, and a fade-in 10 ms after a picture is put in place.       *)
(*                                                                         *)
(* Timers of one length end in the order in which they were set; nothing   *)
(* is assumed of an arrow's timer and a fade-in, which may be late.        *)
(***************************************************************************)
EXTENDS Integers, Sequences, Functions

CONSTANTS
  MaxImages,   \* LIMIT of get_slider_img.php, 5 in the code
  MaxClicks    \* bound: clicks on arrows and dots, and loads of the page

ASSUME SliderAssumption == MaxImages \in Nat /\ MaxClicks \in Nat

VARIABLES
  immagini,        \* immagini.length
  stato,           \* "ready" once the pictures have arrived or the request failed
  indiceCorrente,
  mostrata,        \* the picture in the page
  pallino,         \* the dot with the class 'active', -1 without dots
  frecce,          \* arrow timers that run: the directions
  dissolvenze,     \* number of fade-in timers that run
  clicks,          \* history: clicks and loads, for the bound
  ultimo,          \* history: the last dot, or the first picture
  spinte           \* history: arrows that took effect after it or still will

sliderVars == <<immagini, stato, indiceCorrente, mostrata, pallino, frecce,
                dissolvenze, clicks, ultimo, spinte>>

Indices == 0 .. immagini - 1
NoPicture == [indice |-> -1, visibile |-> FALSE]

SliderInit ==
  /\ immagini = 0
  /\ stato = "loading"
  /\ indiceCorrente = 0
  /\ mostrata = NoPicture
  /\ pallino = -1
  /\ frecce = <<>>
  /\ dissolvenze = 0
  /\ clicks = 0
  /\ ultimo = 0
  /\ spinte = 0

Click == clicks < MaxClicks /\ clicks' = clicks + 1

(* The page is left or loaded again: timers and answers are dropped.       *)
Unload ==
  /\ Click
  /\ immagini' = 0
  /\ stato' = "loading"
  /\ indiceCorrente' = 0
  /\ mostrata' = NoPicture
  /\ pallino' = -1
  /\ frecce' = <<>>
  /\ dissolvenze' = 0
  /\ ultimo' = 0
  /\ spinte' = 0

(* Mutant of MostraImmagine: the picture is never faded in.                *)
MostraImmagine_Hidden(i) ==
  /\ mostrata' = [indice |-> i, visibile |-> FALSE]
  /\ UNCHANGED dissolvenze

(* mostraImmagine: the old picture goes, the new one is transparent.       *)
MostraImmagine(i) ==
  /\ mostrata' = [indice |-> i, visibile |-> FALSE]
  /\ dissolvenze' = dissolvenze + 1

(* Mutant of AggiornaPallini: no dot changes.                              *)
AggiornaPallini_Not(i) == pallino' = IF pallino = -1 THEN i ELSE pallino

(* aggiornaPallini, called after every change of indiceCorrente.           *)
AggiornaPallini(i) == pallino' = i

Mostra(i) ==
  /\ indiceCorrente' = i
  /\ MostraImmagine(i)
  /\ AggiornaPallini(i)

(* The answer of get_slider_img.php; "n" is 0 too if it is not JSON or the *)
(* request fails.                                                          *)
ImagesArrive(n) ==
  /\ stato = "loading"
  /\ stato' = "ready"
  /\ immagini' = n
  /\ IF n > 0 THEN Mostra(0)
     ELSE UNCHANGED <<indiceCorrente, mostrata, pallino, dissolvenze>>
  /\ UNCHANGED <<frecce, clicks, ultimo, spinte>>

(* cambiaImmagine.  The dissolve of :28 never happens: no img is below an  *)
(* a that is below .slider-link.                                           *)
Arrow(d) ==
  /\ Click
  /\ immagini > 0
  /\ frecce' = Append(frecce, d)
  /\ spinte' = spinte + d
  /\ UNCHANGED <<immagini, stato, indiceCorrente, mostrata, pallino,
                 dissolvenze, ultimo>>

(* Mutant of NextIndex: "+ immagini.length" is forgotten; % of a negative  *)
(* number is negative in JavaScript.                                       *)
NextIndex_Negative(i, d) == IF i + d < 0 THEN i + d ELSE (i + d) % immagini

NextIndex(i, d) == (i + d + immagini) % immagini

(* Mutant of TimersLeft: clearTimeout for the arrows that were clicked     *)
(* meanwhile.                                                              *)
TimersLeft_None(q) == <<>>

TimersLeft(q) == Tail(q)

ArrowTimer ==
  /\ frecce # <<>>
  /\ frecce' = TimersLeft(frecce)
  /\ Mostra(NextIndex(indiceCorrente, Head(frecce)))
  /\ UNCHANGED <<immagini, stato, clicks, ultimo, spinte>>

(* A dot does not cancel the timers of the arrows.                         *)
Dot(i) ==
  /\ Click
  /\ i \in Indices
  /\ Mostra(i)
  /\ ultimo' = i
  /\ spinte' = SumFunction(frecce)
  /\ UNCHANGED <<immagini, stato, frecce>>

(* The last timer is the one of the picture in the page.                   *)
FadeIn ==
  /\ dissolvenze > 0
  /\ dissolvenze' = dissolvenze - 1
  /\ mostrata' = [mostrata EXCEPT !.visibile = @ \/ dissolvenze = 1]
  /\ UNCHANGED <<immagini, stato, indiceCorrente, pallino, frecce, clicks,
                 ultimo, spinte>>

SliderStep ==
  \/ \E n \in 0 .. MaxImages : ImagesArrive(n)
  \/ \E d \in {-1, 1} : Arrow(d)
  \/ \E i \in Indices : Dot(i)
  \/ ArrowTimer
  \/ FadeIn

SliderNext == SliderStep \/ Unload

SliderSpec == SliderInit /\ [][SliderNext]_sliderVars

-----------------------------------------------------------------------------
(* The index stays within the pictures although arrows wrap around at both *)
(* ends, and the timers belong to pictures that are there.                 *)
SliderTypeOK ==
  /\ immagini \in 0 .. MaxImages
  /\ stato \in {"loading", "ready"}
  /\ immagini > 0 => stato = "ready"
  /\ indiceCorrente \in Nat
  /\ mostrata \in [indice : Int, visibile : BOOLEAN]
  /\ pallino \in Int
  /\ frecce \in Seq({-1, 1})
  /\ dissolvenze \in Nat
  /\ clicks \in 0 .. MaxClicks
  /\ ultimo \in Nat
  /\ immagini > 0 => indiceCorrente \in Indices /\ ultimo \in Indices
  /\ immagini = 0 => frecce = <<>> /\ dissolvenze = 0 /\ ultimo = 0

(* The picture in the page, the highlighted dot and indiceCorrente agree   *)
(* after every click and timer, and there is a picture iff any arrived.    *)
DotIsShown ==
  IF immagini > 0
  THEN mostrata.indice = indiceCorrente /\ pallino = indiceCorrente
  ELSE mostrata = NoPicture /\ pallino = -1

(* No click on an arrow is lost or counted twice, however fast the clicks: *)
(* counted from the last dot, the index and the timers that still run add  *)
(* up to the arrows.                                                       *)
ArrowsAreCounted ==
  immagini > 0 =>
    (indiceCorrente + SumFunction(frecce) - (ultimo + spinte)) % immagini = 0

(* Once pictures have arrived the slider comes to rest with a picture that *)
(* can be seen, unless the page is left.                                   *)
SliderSettles ==
  immagini > 0 ~> \/ immagini = 0
                  \/ frecce = <<>> /\ mostrata.visibile

=============================================================================
