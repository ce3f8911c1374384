------------------------------ MODULE WordBook ------------------------------
(***************************************************************************)
(* What a Frothy board promises about its words, whatever slots, ids and   *)
(* records are behind them: a book of words as they are now, and a stored  *)
(* book of two layers, the library's and the user's own.                   *)
(*                                                                         *)
(* A word means a number, a Text, a body in terms of other words' names,   *)
(* and so on; Unset says that there is no such word.                       *)
(***************************************************************************)
CONSTANTS Words, Unset,
          Settled(_)  \* what is stored for a value: a handle is stored as nil

VARIABLES now,      \* what each word means
          library,  \* what the stored library says of it
          user,     \* what the stored user words say of it
          said      \* the last command and its answer

stored == <<library, user>>
book == <<now, stored, said>>

Blank == [w \in Words |-> Unset]

\* A stored user word hides the library word under it.
Over(l, u) == [w \in Words |-> IF u[w] # Unset THEN u[w] ELSE l[w]]
Stored == Over(library, user)

Says(command, answer) == said' = <<command, answer>>

Init == now = Blank /\ library = Blank /\ user = Blank /\ said = <<"reboot", "OK">>

\* At most the word w differs, and it means something.
Changes(w, old, new) ==
  new[w] # Unset /\ \A v \in Words \ {w} : new[v] = old[v]

\* A definition changes its word, and only in RAM.
Define ==
  /\ Says("define", "OK")
  /\ \E w \in Words : Changes(w, now, now')
  /\ UNCHANGED stored

\* A run of the program changes what words mean; it makes and drops none.
Run ==
  /\ Says("run", "OK")
  /\ \A w \in Words : now'[w] = Unset <=> now[w] = Unset
  /\ UNCHANGED stored

\* Save stores what every word means, and the library stays as it is.
Save ==
  /\ Says("save", "OK")
  /\ now' = now
  /\ library' = library
  /\ Over(library, user') = [w \in Words |-> Settled(now[w])]

\* A restart, a restore and a clear go back to what is stored.
Revert ==
  /\ \E c \in {"reboot", "restore", "clear"} : Says(c, "OK")
  /\ now' = Stored
  /\ UNCHANGED stored

\* The library outlives a wipe of the user's words.
WipeUser ==
  /\ Says("wipe-user", "OK")
  /\ user' = Blank
  /\ library' = library
  /\ now' = library

\* Installing a library starts from none, and stores the user's words as they
\* are now.
InstallLibrary ==
  /\ Says("install-library", "OK")
  /\ library' = Blank
  /\ user' = now'
  /\ \A w \in Words : now'[w] = now[w] \/ (now'[w] = Unset /\ now[w] = library[w])

\* A library definition is stored at once, with all words as they are now.
LibraryDefine ==
  /\ Says("library", "OK")
  /\ \E w \in Words :
       /\ Changes(w, now, now')
       /\ library' = [library EXCEPT ![w] = now'[w]]
  /\ Over(library', user') = now'

Wipe == Says("wipe", "OK") /\ now' = Blank /\ library' = Blank /\ user' = Blank

\* A refused command changes nothing, or takes back all that was not stored.
Refuse ==
  /\ said'[2] # "OK"
  /\ now' = now \/ (said'[1] \in {"library", "wipe-user", "install-library"} /\ now' = Stored)
  /\ UNCHANGED stored

Next == Define \/ Run \/ Save \/ Revert \/ WipeUser \/ InstallLibrary
          \/ LibraryDefine \/ Wipe \/ Refuse

Spec == Init /\ [][Next]_book
=============================================================================
