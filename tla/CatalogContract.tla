--------------------------- MODULE CatalogContract ---------------------------
(* What the catalogue of directories and files promises (src/internal/service/ *)
(* directory.go and file.go), with no requests, statements, foreign keys or    *)
(* goroutines in sight: every operation happens at one moment, or not at all.  *)
(*   - a directory is put into one that is there, of the same user, under a    *)
(*     name that is free; an id is used once;                                  *)
(*   - a file is put into a directory that is there;                           *)
(*   - with a directory exactly those below it go, all of its owner, and the   *)
(*     rows in them;                                                           *)
(*   - a file is deleted once and announced as deleted once at most, and what  *)
(*     goes with a directory is not announced.                                 *)
CONSTANTS Dirs, Files, UserOf, NameOf, Root

VARIABLES tree,   \* the parent of each directory there is
          rows,   \* the directory of each file that has a row, and whether it is live
          spent,  \* ids whose request has come to its end, or to its INSERT
          due,    \* deleted files that may still be announced
          told    \* announced ones

vars == <<tree, rows, spent, due, told>>

Init ==
  /\ tree = [d \in {} |-> Root]
  /\ rows = [f \in {} |-> [dir |-> Root, live |-> FALSE]]
  /\ spent = {} /\ due = {} /\ told = {}

Restriction(f, S) == [x \in DOMAIN f \ S |-> f[x]]
Extension(f, x, v) == [y \in DOMAIN f \cup {x} |-> IF y = x THEN v ELSE f[y]]

FreeName(d, p) ==
  \A e \in DOMAIN tree :
    tree[e] = p => UserOf[e] # UserOf[d] \/ NameOf[e] # NameOf[d]

AddDir(d, p) ==
  /\ d \notin spent
  /\ p # Root => p \in DOMAIN tree /\ UserOf[p] = UserOf[d] /\ FreeName(d, p)
  /\ tree' = Extension(tree, d, p)
  /\ spent' = spent \cup {d}
  /\ UNCHANGED <<rows, due, told>>

AddFile(f, d) ==
  /\ f \notin spent
  /\ d \in DOMAIN tree
  /\ rows' = Extension(rows, f, [dir |-> d, live |-> TRUE])
  /\ spent' = spent \cup {f}
  /\ UNCHANGED <<tree, due, told>>

\* The row stays. An error hides whether it was deleted, so it may go unannounced.
DeleteFile(f) ==
  /\ f \in DOMAIN rows /\ rows[f].live
  /\ rows' = [rows EXCEPT ![f].live = FALSE]
  /\ due' \in {due, due \cup {f}}
  /\ UNCHANGED <<tree, spent, told>>

\* D is the whole tree below d, and nothing else.
Below(d, D) ==
  /\ d \in D
  /\ \A e \in DOMAIN tree : tree[e] \in D => e \in D
  /\ \A e \in D \ {d} : tree[e] \in D
  /\ \A e \in D : UserOf[e] = UserOf[d]

DeleteDir(d, D) ==
  /\ tree' = Restriction(tree, D)
  /\ rows' = Restriction(rows, {f \in DOMAIN rows : rows[f].dir \in D})
  /\ UNCHANGED <<spent, due, told>>
  /\ Below(d, D)

Announce(f) ==
  /\ f \in due /\ f \notin told
  /\ due' = due \ {f}
  /\ told' = told \cup {f}
  /\ UNCHANGED <<tree, rows, spent>>

\* Requests fail without effect, announcements are lost: the process died, say.
Fail(ids, lost) ==
  /\ UNCHANGED <<tree, rows, told>>
  /\ spent' = spent \cup ids
  /\ due' = due \ lost

Next ==
  \/ \E ids \in SUBSET (Dirs \cup Files), lost \in SUBSET Files : Fail(ids, lost)
  \/ \E d \in Dirs, p \in Dirs \cup {Root} : AddDir(d, p)
  \/ \E f \in Files, d \in Dirs : AddFile(f, d)
  \/ \E f \in Files : DeleteFile(f) \/ Announce(f)
  \/ \E d \in DOMAIN tree, D \in SUBSET DOMAIN tree : DeleteDir(d, D)

Spec == Init /\ [][Next]_vars
=============================================================================
