----------------------------- MODULE SettingsMC -----------------------------
(* Instances of Settings.                                                  *)
EXTENDS Settings

CONSTANTS p1, p2

MCOnePage == {p1}
MCPages == {p1, p2}

(* The password comes from the environment, the recipients do not.         *)
MCEnv == [n \in Names |-> IF n = "password" THEN "good" ELSE NoValue]

MCAllForms == [p \in MCOnePage |-> [cfg: Configs, change: Changes]]

(* A password is as good as another.                                       *)
SomeChanges == {c \in Changes : c["password"] # "bad"}

(* The second page gives recipients and clears the password.               *)
MCForms ==
  [p \in MCPages |->
     IF p = p1 THEN [cfg: Configs, change: SomeChanges]
     ELSE {[cfg    |-> [smtp |-> FALSE, low |-> 1],
            change |-> [n \in Names |-> IF n = "to" THEN "good" ELSE "clear"]]}]
=============================================================================
