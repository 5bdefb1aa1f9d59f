----------------------------- MODULE VersionBump -----------------------------
(***************************************************************************)
(* scripts/bump_version.py: the version of a release, which sixteen files  *)
(* repeat, rewritten and checked by a script that may be killed.           *)
(*                                                                         *)
(* A file is known by its marks, the places where it states the version.   *)
(* A kill between open(path, "w") and the write leaves the file empty.     *)
(***************************************************************************)
EXTENDS Naturals, Sequences

CONSTANTS
  Order,      \* the files, in the order in which they are written
  Marks,      \* file -> the marks in it
  Strict,     \* marks that are only found when they hold a version
  Optional,   \* marks that an update passes over when they are missing
  Parts,      \* marks that hold MAJOR, MINOR and PATCH as numbers
  First,      \* the mark in the first file that a check without version goes by
  Versions,   \* versions of the form MAJOR.MINOR.PATCH
  Odd,        \* a value of another form
  Missing,    \* no value: the mark is not in the file
  Empty,      \* the content of an empty file
  None

Files    == {Order[i] : i \in DOMAIN Order}
AllMarks == UNION {Marks[f] : f \in Files}

ASSUME BumpAssumption ==
  /\ Order \in Seq(Files) /\ Order # <<>>
  /\ \A i, j \in DOMAIN Order : Order[i] = Order[j] => i = j
  /\ \A f, g \in Files : f # g => Marks[f] \cap Marks[g] = {}
  /\ Strict \cup Optional \cup Parts \subseteq AllMarks
  /\ First \in Marks[Order[1]] \ (Parts \cup Optional)
  /\ \A f \in Files : Marks[f] \cap Parts # {} => Marks[f] \ Parts # {}
  /\ None \notin Versions /\ None \notin {0, 1} /\ None \notin {"check", "bump"}

\* What people can make of a mark, and so of a file.
ValuesOf(m) == Versions \cup (IF m \in Parts THEN {} ELSE {Odd})
                        \cup (IF m \in Optional THEN {Missing} ELSE {})
Contents(f) == {c \in [Marks[f] -> Versions \cup {Odd, Missing}] :
                  \A m \in Marks[f] : c[m] \in ValuesOf(m)}
Trees == {t \in [Files -> {Empty} \cup UNION {Contents(f) : f \in Files}] :
            \A f \in Files : t[f] \in Contents(f) \cup {Empty}}

ASSUME EmptyAssumption == \A f \in Files : Empty \notin Contents(f)

VARIABLES
  tree,      \* content of the files
  drift,     \* whether package-lock.json differs from package.json in dependencies
  pc,        \* where the script is
  todo,      \* the places in Order of the files it has still to write
  new,       \* the contents it computed
  args,      \* the version and the options it was called with
  rc,        \* its exit code; None while it runs and when it was killed
  start      \* the tree when it was called (history)

vars == <<tree, drift, pc, todo, new, args, rc, start>>

Least(S) == {i \in S : \A j \in S : i <= j}

NoArgs == [command |-> None, version |-> None, strictLockfile |-> FALSE]

TypeOK ==
  /\ {tree, start, new} \subseteq Trees
  /\ drift \in BOOLEAN
  /\ pc \in {"idle", "writing", "filling"}
  /\ todo \subseteq DOMAIN Order
  /\ pc = "idle" => todo = {}
  /\ pc = "filling" => \E i \in Least(todo) : tree[Order[i]] = Empty
  /\ args \in [command : {"check", "bump", "rehearsal", None},
               version : Versions \cup {None}, strictLockfile : BOOLEAN]
  /\ rc \in {0, 1, None}

\* A repository at one version.
Init ==
  /\ \E v \in Versions : tree = [f \in Files |-> [m \in Marks[f] |-> v]]
  /\ drift \in BOOLEAN
  /\ pc = "idle" /\ todo = {} /\ args = NoArgs /\ rc = None
  /\ new = tree /\ start = tree
-----------------------------------------------------------------------------
\* The patterns of an update match, and the JSON files can be read.
Updatable(content) ==
  /\ content # Empty
  /\ \A m \in DOMAIN content : m \in Strict => content[m] \in Versions

\* Leaves all marks of a file but one as they are.
UpdatedOnce(content, v) ==
  LET first == CHOOSE m \in DOMAIN content : m \notin Parts
  IN  [content EXCEPT ![first] = v]

Updated(content, v) ==
  [m \in DOMAIN content |-> IF content[m] = Missing THEN Missing ELSE v]

\* The values that a check prints; an empty file has none, which is an error.
Observed(t) == UNION {{t[f][m] : m \in Marks[f] \ (Parts \cup Optional)} : f \in Files}

\* A lockfile that does not list its own package is a problem of its own.
Listed(t) == UNION {{t[f][m] : m \in Marks[f] \cap Optional} : f \in Files}

\* MAJOR, MINOR and PATCH are those of the version beside them.
Triplets(t) ==
  \A f \in Files, m \in Parts :
    m \in Marks[f] => \E own \in Marks[f] \ Parts : t[f][m] = t[f][own]

\* Takes the files whose patterns are unique for the whole.
ConsistentButListed(t, lockDiffers, expected, strictLockfile) ==
  /\ \A f \in Files : t[f] # Empty
  /\ \E canonical \in Versions : /\ expected \in {None, canonical}
                                 /\ Observed(t) = {canonical}
  /\ Triplets(t)
  /\ strictLockfile => ~lockDiffers

\* Without a version to go by, the first one observed is.
Consistent(t, lockDiffers, expected, strictLockfile) ==
  /\ \A f \in Files : t[f] # Empty
  /\ LET canonical == IF expected = None THEN t[Order[1]][First] ELSE expected
     IN  canonical \in Versions /\ Observed(t) \cup Listed(t) = {canonical}
  /\ Triplets(t)
  /\ strictLockfile => ~lockDiffers

Code(t, expected, strictLockfile) ==
  IF Consistent(t, drift, expected, strictLockfile) THEN 0 ELSE 1

Check(expected, strictLockfile) ==
  /\ pc = "idle"
  /\ args' = [command |-> "check", version |-> expected,
              strictLockfile |-> strictLockfile]
  /\ rc' = Code(tree, expected, strictLockfile)
  /\ start' = tree
  /\ UNCHANGED <<tree, drift, pc, todo, new>>

\* Writes what could be transformed and passes over what could not.
BumpWhatMatches(v, strictLockfile, rehearsal) ==
  /\ pc = "idle" /\ ~rehearsal
  /\ args' = [command |-> "bump", version |-> v,
              strictLockfile |-> strictLockfile]
  /\ start' = tree
  /\ new' = [f \in Files |->
               IF Updatable(tree[f]) THEN Updated(tree[f], v) ELSE tree[f]]
  /\ todo' = {i \in DOMAIN Order : new'[Order[i]] # tree[Order[i]]}
  /\ pc' = "writing" /\ rc' = None
  /\ UNCHANGED <<tree, drift>>

\* _compute_changes: every file is read and transformed before one is written.
Bump(v, strictLockfile, rehearsal) ==
  /\ pc = "idle"
  /\ args' = [command |-> IF rehearsal THEN "rehearsal" ELSE "bump", version |-> v,
              strictLockfile |-> strictLockfile]
  /\ start' = tree
  /\ IF \A f \in Files : Updatable(tree[f])
       THEN LET changed == [f \in Files |-> Updated(tree[f], v)]
                pending == {i \in DOMAIN Order : changed[Order[i]] # tree[Order[i]]}
            IN  IF pending = {}
                  THEN /\ rc' = Code(tree, v, strictLockfile)
                       /\ UNCHANGED <<pc, todo, new>>
                  ELSE IF rehearsal
                    THEN rc' = 0 /\ UNCHANGED <<pc, todo, new>>
                    ELSE /\ pc' = "writing" /\ todo' = pending /\ new' = changed
                         /\ rc' = None
       ELSE rc' = 1 /\ UNCHANGED <<pc, todo, new>>
  /\ UNCHANGED <<tree, drift>>

\* write_text: the file is emptied when it is opened ...
Open ==
  /\ pc = "writing"
  /\ \E i \in Least(todo) : tree' = [tree EXCEPT ![Order[i]] = Empty]
  /\ pc' = "filling"
  /\ UNCHANGED <<drift, todo, new, args, rc, start>>

\* ... and has its new text when it is closed.
Fill ==
  /\ pc = "filling"
  /\ \E i \in Least(todo) :
       /\ tree' = [tree EXCEPT ![Order[i]] = new[Order[i]]]
       /\ todo' = todo \ {i}
  /\ pc' = "writing"
  /\ UNCHANGED <<drift, new, args, rc, start>>

Verify ==
  /\ pc = "writing" /\ todo = {}
  /\ rc' = Code(tree, args.version, args.strictLockfile)
  /\ pc' = "idle"
  /\ UNCHANGED <<tree, drift, todo, new, args, start>>

\* The list of pending files survives the script.
KillKeepingTodo ==
  /\ pc # "idle" /\ pc' = "idle"
  /\ UNCHANGED <<tree, drift, todo, new, args, rc, start>>

Kill ==
  /\ pc # "idle"
  /\ pc' = "idle" /\ todo' = {}
  /\ UNCHANGED <<tree, drift, new, args, rc, start>>

\* Somebody edits a file, or restores it.
Edit(f) ==
  /\ pc = "idle"
  /\ \E c \in Contents(f) : tree' = [tree EXCEPT ![f] = c]
  /\ args' = NoArgs /\ rc' = None /\ start' = tree'
  /\ UNCHANGED <<drift, pc, todo, new>>

Next ==
  \/ \E v \in Versions \cup {None}, strict \in BOOLEAN : Check(v, strict)
  \/ \E v \in Versions, strict, rehearsal \in BOOLEAN : Bump(v, strict, rehearsal)
  \/ Open \/ Fill \/ Verify \/ Kill
  \/ \E f \in Files : Edit(f)

Spec == Init /\ [][Next]_vars
-----------------------------------------------------------------------------
(* A check or a bump that exits with 0 leaves every file complete and      *)
(* every mark, the numbers of the version among them, at one version, the  *)
(* requested one; whatever was edited by hand or left by a kill before.    *)
SuccessMeansConsistent ==
  rc = 0 /\ args.command \in {"check", "bump"} =>
    \E v \in Versions :
      /\ args.version \in {v, None}
      /\ \A f \in Files : tree[f] = [m \in Marks[f] |-> v]

(* A run changes nothing unless it could transform every file; then, run   *)
(* to its end or killed, it has changed the files of a prefix of its order *)
(* to the new version, at most the last of them is empty, and the others   *)
(* are as they were.                                                       *)
WritesAPrefix ==
  tree # start =>
    /\ args.command = "bump"
    /\ \A f \in Files : Updatable(start[f])
    /\ \E n \in 0..Len(Order) :
         \A i \in DOMAIN Order :
           LET f == Order[i] IN
             CASE i < n -> tree[f] = Updated(start[f], args.version)
               [] i = n -> tree[f] \in {Empty, Updated(start[f], args.version)}
               [] i > n -> tree[f] = start[f]

(* A bump that was not killed fails only for a reason that the tree gave   *)
(* it: a file left empty, a mark its pattern does not find, one missing    *)
(* from the lockfile, or dependencies that differ and a strict check.  In  *)
(* particular a bump killed between two files can be run again.            *)
FailsForCause ==
  rc = 1 /\ args.command = "bump" =>
    \/ \E f \in Files : ~Updatable(start[f])
    \/ \E f \in Files : \E m \in Marks[f] : start[f][m] = Missing
    \/ args.strictLockfile /\ drift
===============================================================================
