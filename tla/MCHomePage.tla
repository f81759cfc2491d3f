------------------------------ MODULE MCHomePage ------------------------------
(* Values for the constants of HomePage.                                   *)
EXTENDS HomePage

(* The menus that header_check.php prints for a customer.                  *)
HeaderMenus == {"Piattaforme", "Categorie", "utente"}
=============================================================================
