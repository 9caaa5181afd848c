-------------------------------- MODULE Volume --------------------------------
(***************************************************************************)
(* Fragment paths on a real directory tree: src/src/source_root.rs, the    *)
(* path rules of src/src/inventory.rs and the commit of targets in         *)
(* src/src/commit.rs.  Engine takes for granted which entry a path names;  *)
(* here directories, symbolic links, hard links and names that differ only *)
(* in case decide it, and a commit changes what a path names by creating   *)
(* directories and files.                                                  *)
(***************************************************************************)
EXTENDS Integers, Sequences, SequencesExt

CONSTANTS
    Fold,       \* the name under which the volume stores each name
    PathOrder,  \* every fragment path, in canonical order
    Trees,      \* the trees below the source root before the command
    MaxSteps    \* name resolution gives up after so many steps and one per name

VARIABLES
    tree,       \* directory entries, by location: a sequence of stored names
    content,    \* the content of each file
    inventory,  \* the fragment paths of the document
    phase,      \* where the command stands
    seen,       \* what discovery found at each path
    outputs,    \* the paths that the command is to write
    completed   \* the outputs written so far, in order

vars == <<tree, content, inventory, phase, seen, outputs, completed>>

Paths == Range(PathOrder)
User(file) == [by |-> "user", of |-> file]
Zwirn(path) == [by |-> "zwirn", of |-> path]
Absent == [file |-> << >>, text |-> User(<< >>)]

\* Files are named by the place where they were made, or by another sequence.
DocumentFile == <<"document">>
Directory == [kind |-> "directory"]

Location == Seq(Range(Fold))
Name == DOMAIN Fold \cup {".."}

\* Entries lie in directories. A file that is named by a place was made there.
IsEntry(t, l) ==
    /\ l \in Location /\ l # << >>
    /\ Front(l) # << >> => Front(l) \in DOMAIN t /\ t[Front(l)].kind = "directory"
    /\ \/ t[l].kind = "directory"
       \/ t[l].kind = "link" /\ t[l].target \in Seq(Name)
       \/ /\ t[l].kind = "file" /\ t[l].file # << >>
          /\ t[l].file \in Location => t[l].file \in DOMAIN t
IsTree(t) == \A l \in DOMAIN t : IsEntry(t, l)

ASSUME MaxStepsAssumption == MaxSteps \in Nat
ASSUME PathsAssumption ==
    /\ ".." \notin DOMAIN Fold
    /\ PathOrder \in Seq(Seq(DOMAIN Fold) \ {<< >>})
ASSUME TreesAssumption == \A t \in Trees : IsTree(t)

Put(function, key, value) ==
    [k \in DOMAIN function \cup {key} |-> IF k = key THEN value ELSE function[k]]

-----------------------------------------------------------------------------
(* Name resolution below the source root *)

\* One component, or one link, further; what leaves the root is refused.
Advance(t, walk) ==
    LET name == Head(walk.todo)
        rest == Tail(walk.todo)
        place == Append(walk.at, Fold[name])
        stop(status) == [walk EXCEPT !.status = status]
    IN  IF walk.status # "walking" \/ walk.todo = << >> THEN walk
        ELSE IF name = ".." THEN
            IF walk.at = << >> THEN stop("escape")
            ELSE [walk EXCEPT !.at = Front(walk.at), !.todo = rest]
        ELSE IF place \notin DOMAIN t THEN stop("missing")
        ELSE CASE t[place].kind = "directory" -> [walk EXCEPT !.at = place, !.todo = rest]
               [] t[place].kind = "link" -> [walk EXCEPT !.todo = t[place].target \o rest]
               [] t[place].kind = "file" ->
                      IF rest = << >> THEN [walk EXCEPT !.at = place, !.todo = rest, !.status = "file"]
                      ELSE stop("not a directory")

\* The way of a path, step by step, as long as patience lasts.
Patience(path) == MaxSteps + Len(path)
Steps(t, path) ==
    LET walk[n \in 0 .. Patience(path)] ==
            IF n = 0 THEN [at |-> << >>, todo |-> path, status |-> "walking"]
            ELSE Advance(t, walk[n - 1])
    IN  walk

\* Where a path leads, every link followed: to a file, a directory or nowhere.
Walk(t, path) ==
    LET last == Steps(t, path)[Patience(path)]
    IN  IF last.status # "walking" THEN last
        ELSE [last EXCEPT !.status = IF last.todo = << >> THEN "directory" ELSE "loop"]

Status(t, path) == Walk(t, path).status
FileAt(t, path) == t[Walk(t, path).at].file

\* The place of the last name of a path, which is not followed.
Place(t, path) == Append(Walk(t, Front(path)).at, Fold[Last(path)])
Vacant(t, path) ==
    Status(t, Front(path)) = "directory" /\ Place(t, path) \notin DOMAIN t

MakeDirectory(t, path) ==
    IF Vacant(t, path) THEN Put(t, Place(t, path), Directory) ELSE t

\* Every missing directory on a path, as far as they can be made.
MakeDirectories(t, path) ==
    LET made[n \in 0 .. Len(path)] ==
            IF n = 0 THEN t ELSE MakeDirectory(made[n - 1], SubSeq(path, 1, n))
    IN  made[Len(path)]

-----------------------------------------------------------------------------
(* Discovery *)

\* Mutant: only equal paths are in conflict.
ConflictOfEqual(paths) == FALSE

\* validate_path_prefixes: a path that is a directory of another one.
Conflict(paths) == \E p, q \in paths : p # q /\ IsPrefix(p, q)

\* Mutant: targets are told apart by their paths alone.
SameFileNever(file, path) == FALSE

\* The file is the document, or that of a path that was read before.
SameFile(file, path) ==
    \/ file = DocumentFile
    \/ \E p \in DOMAIN seen : p # path /\ seen[p].file = file

ParentsAllow(path) ==
    \A n \in 1 .. Len(path) - 1 :
        Status(tree, SubSeq(path, 1, n)) \in {"directory", "missing"}

First(paths) == PathOrder[CHOOSE i \in DOMAIN PathOrder :
    /\ PathOrder[i] \in paths
    /\ \A j \in DOMAIN PathOrder : PathOrder[j] \in paths => i <= j]

Unread == inventory \ DOMAIN seen

RefusePaths ==
    /\ phase = "discover" /\ seen = << >>
    /\ Conflict(inventory)
    /\ phase' = "refused"
    /\ UNCHANGED <<tree, content, inventory, seen, outputs, completed>>

Readable(path) ==
    /\ ParentsAllow(path)
    /\ \/ Status(tree, path) = "missing"
       \/ Status(tree, path) = "file" /\ ~SameFile(FileAt(tree, path), path)

ReadTarget ==
    /\ phase = "discover" /\ Unread # {} /\ ~Conflict(inventory)
    /\ LET path == First(Unread)
       IN  /\ Readable(path)
           /\ seen' = Put(seen, path,
                  IF Status(tree, path) = "missing" THEN Absent
                  ELSE [file |-> FileAt(tree, path), text |-> content[FileAt(tree, path)]])
    /\ UNCHANGED <<tree, content, inventory, phase, outputs, completed>>

RefuseTarget ==
    /\ phase = "discover" /\ Unread # {} /\ ~Conflict(inventory)
    /\ ~Readable(First(Unread))
    /\ phase' = "refused"
    /\ UNCHANGED <<tree, content, inventory, seen, outputs, completed>>

\* Any of the fragments may be selected and in need of a new target.
Choose(chosen) ==
    /\ phase = "discover" /\ Unread = {}
    /\ phase' = "parents"
    /\ outputs' = chosen
    /\ UNCHANGED <<tree, content, inventory, seen, completed>>

-----------------------------------------------------------------------------
(* Commit *)

Pending == outputs \ Range(completed)

MakeParents ==
    /\ phase = "parents" /\ Pending # {}
    /\ LET parent == Front(First(Pending))
           made == MakeDirectories(tree, parent)
       IN  /\ tree' = made
           /\ phase' = IF Status(made, parent) = "directory" THEN "write" ELSE "failed"
    /\ UNCHANGED <<content, inventory, seen, outputs, completed>>

\* Mutant: the new file is compared with no other path.
AliasedNever(t, path) == FALSE

\* create_target: another path that was absent now names the new file.
Aliased(t, path) ==
    \E p \in inventory \ {path} :
        /\ seen[p] = Absent
        /\ Status(t, p) = "file"
        /\ FileAt(t, p) = FileAt(t, path)

\* The file is created exclusively, with its place as its identity.
CreateTarget(path) ==
    /\ seen[path] = Absent
    /\ Vacant(tree, path)
    /\ tree' = Put(tree, Place(tree, path), [kind |-> "file", file |-> Place(tree, path)])
    /\ content' = Put(content, Place(tree, path), Zwirn(path))
    /\ phase' = IF Aliased(tree', path) THEN "failed" ELSE "parents"

ReplaceTarget(path) ==
    /\ seen[path] # Absent
    /\ Status(tree, path) = "file"
    /\ content' = [content EXCEPT ![FileAt(tree, path)] = Zwirn(path)]
    /\ phase' = "parents"
    /\ UNCHANGED tree

WriteTarget ==
    /\ phase = "write"
    /\ LET path == First(Pending)
       IN  /\ CreateTarget(path) \/ ReplaceTarget(path)
           /\ completed' = Append(completed, path)
    /\ UNCHANGED <<inventory, seen, outputs>>

FailTarget ==
    /\ phase = "write"
    /\ LET path == First(Pending)
       IN  IF seen[path] = Absent THEN ~Vacant(tree, path) ELSE Status(tree, path) # "file"
    /\ phase' = "failed"
    /\ UNCHANGED <<tree, content, inventory, seen, outputs, completed>>

Complete ==
    /\ phase = "parents" /\ Pending = {}
    /\ phase' = "completed"
    /\ UNCHANGED <<tree, content, inventory, seen, outputs, completed>>

Ended == phase \in {"refused", "failed", "completed"} /\ UNCHANGED vars

Init ==
    /\ tree \in Trees
    /\ content = [file \in {tree[l].file : l \in {l \in DOMAIN tree : tree[l].kind = "file"}}
                    |-> User(file)]
    /\ inventory \in SUBSET Paths
    /\ phase = "discover"
    /\ seen = << >> /\ outputs = {} /\ completed = << >>

Next ==
    \/ RefusePaths \/ ReadTarget \/ RefuseTarget
    \/ \E chosen \in SUBSET inventory : Choose(chosen)
    \/ MakeParents \/ WriteTarget \/ FailTarget \/ Complete
    \/ Ended

Spec == Init /\ [][Next]_vars

-----------------------------------------------------------------------------
(* Properties *)

\* A command that completes has created no target that is the file of another
\* fragment target as well (docs/design.md, "Paths"; SourceRoot::create_target).
CreatesNoAlias ==
    phase = "completed" =>
        \A p \in outputs, q \in inventory :
            seen[p] = Absent /\ p # q /\ Status(tree, q) = "file" =>
                FileAt(tree, p) # FileAt(tree, q)

\* What a completed command wrote to a path is what the path reads, however
\* names, links and the directories made in between resolve; and at no moment,
\* not even after a failure, does a target that existed and was not written read
\* anything but what discovery read (commit_using, Inventory::discover_inner).
WrittenIsReadBack ==
    phase = "completed" =>
        \A p \in outputs :
            Status(tree, p) = "file" /\ content[FileAt(tree, p)] = Zwirn(p)

UnwrittenAreKept ==
    \A p \in DOMAIN seen \ Range(completed) :
        seen[p] # Absent =>
            /\ Status(tree, p) = "file"
            /\ FileAt(tree, p) = seen[p].file
            /\ content[FileAt(tree, p)] = seen[p].text

TargetsReadAsLeft == WrittenIsReadBack /\ UnwrittenAreKept

\* Where there are neither links nor names that differ only in case, what
\* discovery has validated can be committed (validate_path_prefixes,
\* validate_parents, read_optional_target).
Plain ==
    /\ \A l \in DOMAIN tree : tree[l].kind # "link"
    /\ \A p \in inventory : \A i \in DOMAIN p : Fold[p[i]] = p[i]

ValidatedCanBeCommitted == Plain => phase # "failed"
=============================================================================
