----------------------------- MODULE MCEntryEdit ----------------------------
(* Instances of EntryEdit for TLC: an attribute everyone can read, one that *)
(* needs a login and is replaced as a whole, and a picture.                  *)
EXTENDS EntryEdit
CONSTANTS mail, note, photo, anon, admin, v1

MCAttrs == {mail, note, photo}
MCContents == SUBSET {v1}
MCInitial == [a \in MCAttrs |-> {v1}]
MCReadable == [i \in Identities |-> IF i = admin THEN MCAttrs ELSE {mail, photo}]
=============================================================================
