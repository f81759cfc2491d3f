\* Up to three pictures and six clicks on the slider or loads of a page;
\* three menus; other tabs choose a theme at any time.
SPECIFICATION FairSpec
CONSTANTS
  MaxImages = 3
  MaxClicks = 6
  Menus <- HeaderMenus
INVARIANTS HomeTypeOK DotIsShown ArrowsAreCounted ThemeIsTheChosenOne
PROPERTY SliderSettles
