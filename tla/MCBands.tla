------------------------------- MODULE MCBands -------------------------------
(***************************************************************************)
(* What becomes of a band: its registration, its accounts, its goods, its  *)
(* files with their backups; and the disposable bands of the practice      *)
(* mode.  The five share no state, so each behaviour follows one of them   *)
(* ("part") and leaves the others at their start.                          *)
(***************************************************************************)
EXTENDS Registration, Accounts, Purchases, Backups, Sandbox, TLC

CONSTANTS a, b, c, g1, g2

VARIABLE part

\* An article with a default value, a second one, and an option that may join them.
GroupOfSizes == a :> g1 @@ b :> g1 @@ c :> g2

Follow(p) == part = p /\ UNCHANGED part

BandsInit ==
  /\ part \in {"registration", "accounts", "goods", "files", "practice"}
  /\ RegistrationInit /\ AccountsInit /\ CatalogueInit /\ BackupsInit /\ SandboxInit
  /\ part # "accounts" => users = [p \in People |-> Made(TRUE)]

RegistrationKept == UNCHANGED registrationVars
AccountsKept == UNCHANGED accountVars
GoodsKept == UNCHANGED catalogueVars
FilesKept == UNCHANGED backupVars
PracticeKept == UNCHANGED sandboxVars

BandsNext ==
  \/ /\ Follow("registration") /\ RegistrationNext
     /\ AccountsKept /\ GoodsKept /\ FilesKept /\ PracticeKept
  \/ /\ Follow("accounts") /\ AccountsNext
     /\ RegistrationKept /\ GoodsKept /\ FilesKept /\ PracticeKept
  \/ /\ Follow("goods") /\ PurchasesNext
     /\ RegistrationKept /\ AccountsKept /\ FilesKept /\ PracticeKept
  \/ /\ Follow("files") /\ BackupsNext
     /\ RegistrationKept /\ AccountsKept /\ GoodsKept /\ PracticeKept
  \/ /\ Follow("practice") /\ SandboxNext
     /\ RegistrationKept /\ AccountsKept /\ GoodsKept /\ FilesKept

BandsSpec ==
  BandsInit /\
  [][BandsNext]_<<part, registrationVars, accountVars, catalogueVars, backupVars, sandboxVars>>
=============================================================================
