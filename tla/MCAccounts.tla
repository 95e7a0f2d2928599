----------------------------- MODULE MCAccounts -----------------------------
(***************************************************************************)
(* Accounts with two users and up to five requests side by side.            *)
(***************************************************************************)
EXTENDS Accounts

CONSTANTS ann, bob, e1, e2, e3, n0, n1, n2

R == [kind |-> [
    reg1   |-> "register", reg2   |-> "register", regOld |-> "register",
    log1   |-> "login",
    both   |-> "update",   back   |-> "update",   toNew  |-> "update", toOld |-> "update",
    rename |-> "update",
    del1   |-> "delete",   del2   |-> "delete"],
  fields |-> [
    reg1   |-> [email |-> e3], reg2 |-> [email |-> e3], regOld |-> [email |-> e1],
    log1   |-> [email |-> e1],
    both   |-> [email |-> e3, name |-> n2], back |-> [email |-> e1],
    toNew  |-> [email |-> e3], toOld |-> [email |-> e1],
    rename |-> [name |-> n2],
    del1   |-> <<>>,           del2  |-> <<>>]]

MCRequest == DOMAIN R.kind
MCKind == R.kind
MCFields == R.fields
MCSubject == [r \in MCRequest |-> IF r \in {"toNew", "toOld", "rename"} THEN bob ELSE ann]
MCStart == [u \in {ann, bob} |-> [email |-> IF u = ann THEN e1 ELSE e2, name |-> n1]]

\* Registrations and changes that want one email; changes and deletions of one
\* account; an email whose account is being deleted.
MCCases == {{"reg1", "reg2", "both", "toNew"},
            {"both", "toNew", "rename", "regOld"},
            {"both", "back", "del1", "log1", "regOld"},
            {"del1", "del2", "both", "regOld", "toOld"}}
=============================================================================
