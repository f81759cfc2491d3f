------------------------------- MODULE HomePage -------------------------------
(***************************************************************************)
(* A browser tab on the pages of the site: the slider of index.php with    *)
(* the menus of the header (dropdown_botton.js) and the theme              *)
(* (theme_toggle.js, the button of impostazioni.php, logout.php).          *)
(*                                                                         *)
(* All tabs share localStorage; another tab is the action OtherTab.  Every *)
(* click that is not on a menu button reaches the window, which closes     *)
(* the menus.                                                              *)
(***************************************************************************)
EXTENDS Slider, FiniteSets

CONSTANT Menus   \* the elements .dropbtn of the header

VARIABLES
  dove,      \* the page in the tab
  aperti,    \* menus with style.display = "block"
  scuro,     \* document.body has the class 'dark-mode'
  tema,      \* localStorage 'theme', "" if it was never set
  scelto,    \* history: the theme chosen last, in any tab
  altrove    \* history: another tab has chosen since this page was loaded

headerVars == <<dove, aperti, scuro, tema, scelto, altrove>>
homeVars == <<sliderVars, headerVars>>

HomeInit ==
  /\ SliderInit
  /\ dove = "index"
  /\ aperti = {}
  /\ scuro = FALSE
  /\ tema = ""
  /\ scelto = "light"
  /\ altrove = FALSE

(* A script of this page sets the theme "s"; "x" is what the user chose.   *)
SetTheme(s, x) == tema' = s /\ scelto' = x

ThemeOf(dark) == IF dark THEN "dark" ELSE "light"

(* DOMContentLoaded of a page with the header.                             *)
Load(page) ==
  /\ dove' = page
  /\ aperti' = {}
  /\ scuro' = (tema = "dark")
  /\ altrove' = FALSE
  /\ UNCHANGED <<tema, scelto>>

(* The user goes to a page, or loads it again.                             *)
Navigate ==
  /\ dove # "logout"
  /\ Unload
  /\ \E page \in {"index", "impostazioni"} : Load(page)

Logout ==
  /\ dove # "logout"
  /\ Unload
  /\ dove' = "logout"
  /\ aperti' = {}
  /\ scuro' = FALSE
  /\ altrove' = FALSE
  /\ UNCHANGED <<tema, scelto>>

(* Mutant of ResetTheme: only the class is removed.                        *)
ResetTheme_ClassOnly == SetTheme(tema, "light")

(* localStorage.setItem('theme', 'light') of logout.php                    *)
ResetTheme == SetTheme("light", "light")

(* window.onload of logout.php, which goes on to index.php.                *)
LogoutLoaded ==
  /\ dove = "logout"
  /\ dove' = "leaving"
  /\ ResetTheme
  /\ UNCHANGED <<sliderVars, aperti, scuro, altrove>>

AfterLogout ==
  /\ dove = "leaving"
  /\ Load("index")
  /\ UNCHANGED sliderVars

(* #toggle-theme.  The class is toggled, not what is stored: a tab that    *)
(* another one has made stale stores the opposite of what it showed.       *)
ToggleTheme ==
  /\ dove = "impostazioni"
  /\ scuro' = ~scuro
  /\ SetTheme(ThemeOf(~scuro), ThemeOf(~scuro))
  /\ altrove' = FALSE
  /\ aperti' = {}
  /\ UNCHANGED <<sliderVars, dove>>

(* Another tab toggles the theme, from either side, or logs out.           *)
OtherTab ==
  /\ \E x \in {"dark", "light"} : SetTheme(x, x)
  /\ altrove' = TRUE
  /\ UNCHANGED <<sliderVars, dove, aperti, scuro>>

HasHeader == dove \in {"index", "impostazioni"}

(* A click on a menu button closes the other menus and does not bubble.    *)
ClickMenu(m) ==
  /\ HasHeader
  /\ aperti' = {m} \ aperti
  /\ UNCHANGED <<sliderVars, dove, scuro, tema, scelto, altrove>>

(* A click elsewhere, also on an arrow before the pictures have arrived,   *)
(* which throws, or without pictures.                                      *)
ClickElsewhere ==
  /\ HasHeader
  /\ aperti' = {}
  /\ UNCHANGED <<sliderVars, dove, scuro, tema, scelto, altrove>>

(* Clicks on the slider also close the menus; its timers do not.           *)
SliderClicked ==
  /\ dove = "index"
  /\ (\E d \in {-1, 1} : Arrow(d)) \/ (\E i \in Indices : Dot(i))
  /\ aperti' = {}
  /\ UNCHANGED <<dove, scuro, tema, scelto, altrove>>

SliderTimer ==
  /\ dove = "index"
  /\ ArrowTimer \/ FadeIn \/ \E n \in 0 .. MaxImages : ImagesArrive(n)
  /\ UNCHANGED headerVars

HomeNext ==
  \/ SliderClicked \/ SliderTimer
  \/ Navigate \/ Logout \/ LogoutLoaded \/ AfterLogout
  \/ ToggleTheme \/ OtherTab
  \/ \E m \in Menus : ClickMenu(m)
  \/ ClickElsewhere

HomeSpec == HomeInit /\ [][HomeNext]_homeVars

(* A browser runs the timers of a page that is open.                       *)
Fairness ==
  /\ WF_homeVars(dove = "index" /\ ArrowTimer /\ UNCHANGED headerVars)
  /\ WF_homeVars(dove = "index" /\ FadeIn /\ UNCHANGED headerVars)

FairSpec == HomeSpec /\ Fairness

-----------------------------------------------------------------------------
(* The slider only lives on index.php, its index stays within the pictures *)
(* and at most one menu is open.                                           *)
HomeTypeOK ==
  /\ SliderTypeOK
  /\ dove \in {"index", "impostazioni", "logout", "leaving"}
  /\ aperti \subseteq Menus
  /\ scuro \in BOOLEAN
  /\ tema \in {"", "light", "dark"}
  /\ scelto \in {"light", "dark"}
  /\ altrove \in BOOLEAN
  /\ dove # "index" => stato = "loading"
  /\ Cardinality(aperti) <= 1

(* A page shows the theme that was chosen last, also the one after a       *)
(* logout, unless another tab has chosen after the page was loaded.        *)
ThemeIsTheChosenOne ==
  HasHeader /\ ~altrove => ThemeOf(scuro) = scelto

=============================================================================
