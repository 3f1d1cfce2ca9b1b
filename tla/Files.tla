-------------------------------- MODULE Files --------------------------------
(***************************************************************************)
(* plano's file operations (main.py): copy, move, remove, make_link,       *)
(* touch, the operations on lines of text, await_exists and rename_archive *)
(* over a small file system with symbolic links, whose calls can fail.     *)
(*                                                                         *)
(* One operation is executed on each initial tree.  Its recursion is       *)
(* unfolded into an agenda of steps, in the order in which they execute.   *)
(***************************************************************************)
EXTENDS Integers, SequencesExt

CONSTANTS
  Words,      \* what names and lines consist of
  Names,      \* the names of directory entries, sorted
  Trees,      \* the initial file systems
  Targets,    \* the paths that the operations are called with
  MaxDepth    \* bound: a longer path is an OSError

\* A file system is a function from the paths of its entries; a path is a
\* sequence of names, a text is a sequence of lines.
File(text) == [text |-> text, kind |-> "file", to |-> <<>>]
Dir == [text |-> <<>>, kind |-> "dir", to |-> <<>>]
Link(path) == [text |-> <<>>, kind |-> "link", to |-> path]
Temp == <<"temp">>         \* a file in a temporary directory
Nowhere == <<"">>          \* what a loop of links leads to
NewLine == <<"new">>       \* the line that is written

Nodes ==
  {node \in [text : Seq(Seq(Words)), kind : {"file", "dir", "link"}, to : Seq(Words)] :
     node \in {File(node.text), Dir, Link(node.to)}}

\* The paths of names.
Rests == UNION {[1..n -> Range(Names)] : n \in 0..MaxDepth}

\* Every entry is in a directory.
IsTree(f) ==
  /\ f \in [DOMAIN f -> Nodes] /\ DOMAIN f \subseteq Seq(Words)
  /\ <<>> \in DOMAIN f /\ f[<<>>] = Dir
  /\ \A path \in DOMAIN f \ {<<>>} : Front(path) \in DOMAIN f /\ f[Front(path)] = Dir

ASSUME FilesAssumption ==
  /\ {"", "temp", "new"} \subseteq Words
  /\ Names \in Seq(Words \ {"temp"}) /\ IsInjective(Names)
  /\ \A f \in Trees :
       /\ IsTree(f) /\ Temp \notin DOMAIN f /\ Nowhere \notin DOMAIN f
       /\ \A path \in DOMAIN f \ {<<>>} : Tail(path) \in Rests
  /\ Targets \subseteq Seq(Range(Names)) \ {<<>>}
  /\ MaxDepth \in Nat

VARIABLES
  fs,        \* the file system
  op,        \* the operation called
  agenda,    \* its steps to come
  outcome,   \* "running", or how it ended
  result,    \* what tail_lines returns
  before     \* history: the file system when it was called

vars == <<fs, op, agenda, outcome, result, before>>

-----------------------------------------------------------------------------
(* Paths                                                                   *)

Parent(path) == Front(path)
Child(path, name) == Append(path, name)

\* Where the entry itself is, and where it leads to.
IsLinkAt(f, place) == place \in DOMAIN f /\ f[place].kind = "link"
Follow(f, place) ==
  LET next(q) == IF IsLinkAt(f, q) THEN f[q].to ELSE q
      end == next(next(next(place)))
  IN IF IsLinkAt(f, end) THEN Nowhere ELSE end
Walk(f, path) ==
  LET at[n \in 0..Len(path)] ==
        IF n = 0 THEN <<>> ELSE Follow(f, Child(at[n - 1], path[n]))
  IN at
Real(f, path) == Walk(f, path)[Len(path)]
Place(f, path) ==
  IF path = <<>> THEN <<>> ELSE Child(Real(f, Parent(path)), Last(path))

exists(path) == Place(fs, path) \in DOMAIN fs
is_link(path) == IsLinkAt(fs, Place(fs, path))
Leads(path) == Real(fs, path) \in DOMAIN fs
is_dir(path) == Leads(path) /\ fs[Real(fs, path)].kind = "dir"
is_file(path) == Leads(path) /\ fs[Real(fs, path)].kind = "file"
Text(path) == fs[Real(fs, path)].text

Listed(place) ==
  LET names[n \in 0..Len(Names)] ==
        IF n = 0 THEN <<>>
        ELSE IF Child(place, Names[n]) \in DOMAIN fs THEN Append(names[n - 1], Names[n])
        ELSE names[n - 1]
  IN names
list_dir(path) == Listed(Real(fs, path))[Len(Names)]

Within(f, place) == {q \in DOMAIN f : IsPrefix(place, q)}
Without(f, places) == [q \in DOMAIN f \ places |-> f[q]]
With(f, places, node) ==
  [q \in DOMAIN f \cup places |-> IF q \in places THEN node ELSE f[q]]

\* make_parent_dir: makedirs() of the parent unless there is such an entry.
Ancestors(path) == {SubSeq(path, 1, n) : n \in 0..Len(path) - 1}
CanMakeParent(path) ==
  path # <<>> => exists(Parent(path)) \/ \A q \in Ancestors(path) : exists(q) => is_dir(q)
WithParent(path) ==
  IF path = <<>> \/ exists(Parent(path)) THEN fs
  ELSE With(fs, {Real(fs, q) : q \in {r \in Ancestors(path) : ~exists(r)}}, Dir)

\* Whether open(path, "w") succeeds once the parent has been made.
CanOpen(f, path) ==
  LET place == Real(f, path)
  IN /\ place \notin {<<>>, Nowhere}
     /\ place \in DOMAIN f => f[place].kind = "file"
     /\ Parent(place) \in DOMAIN f /\ f[Parent(place)].kind = "dir"

-----------------------------------------------------------------------------
(* Steps                                                                   *)

Step(do, from, to) == [to |-> to, do |-> do, from |-> from, inside |-> FALSE,
                       lines |-> <<>>]
CopyStep(from, to, inside) == [Step("copy", from, to) EXCEPT !.inside = inside]
WriteStep(path, lines) == [Step("write", path, path) EXCEPT !.lines = lines]

Now == Head(agenda)
Doing(do) == outcome = "running" /\ agenda # <<>> /\ Now.do = do
Continue(steps) == agenda' = steps \o Tail(agenda) /\ UNCHANGED outcome
Fail == outcome' = "error" /\ agenda' = <<>>

\* copy(from, to): the parent of to is made, and the entries of a directory are
\* copied one by one, with copystat() as the last step.  Mutant: inside is not looked at.
CopyOver == Now.to
CopyTo == IF is_dir(Now.to) /\ Now.inside THEN Child(Now.to, Last(Now.from)) ELSE Now.to

DoCopy ==
  /\ Doing("copy")
  /\ Len(CopyTo) <= MaxDepth
  /\ \/ CopyTo # Now.to /\ UNCHANGED fs
     \/ CopyTo = Now.to /\ CanMakeParent(CopyTo) /\ fs' = WithParent(CopyTo)
  /\ Continue(<<Step("entries", Now.from, CopyTo)>>)
  /\ UNCHANGED <<op, result, before>>

Entries(from, to) ==
  LET names == list_dir(from)
  IN [n \in DOMAIN names |->
        CopyStep(Child(from, names[n]), Child(to, names[n]), FALSE)]

\* A link is made anew, or what it leads to is copied, with symlinks=False.
DoEntries ==
  LET from == Now.from
      to == Now.to
  IN /\ Doing("entries")
     /\ Continue(
          IF is_dir(from) THEN Entries(from, to) \o <<Step("stat", from, to)>>
          ELSE IF is_link(from) /\ op.symlinks THEN <<Step("link", fs[Place(fs, from)].to, to)>>
          ELSE <<Step("file", from, to)>>)
     /\ UNCHANGED <<fs, op, result, before>>

\* shutil.copystat.
DoStat ==
  /\ Doing("stat")
  /\ Leads(Now.to)
  /\ Continue(<<>>)
  /\ UNCHANGED <<fs, op, result, before>>

\* shutil.copy2 copies into a directory, and no file onto itself.
CopyTarget ==
  IF is_dir(Now.to) THEN Child(Now.to, Last(Now.from)) ELSE Now.to

CanCopyFile ==
  /\ is_file(Now.from)
  /\ Real(fs, CopyTarget) # Real(fs, Now.from)
  /\ CanOpen(fs, CopyTarget)

DoFile ==
  /\ Doing("file")
  /\ CanCopyFile
  /\ fs' = With(fs, {Real(fs, CopyTarget)}, File(Text(Now.from)))
  /\ Continue(<<>>)
  /\ UNCHANGED <<op, result, before>>

\* remove(path): rmtree() ignores its errors, so that some of the entries may
\* stay, and does nothing to a link.  Mutant: not even the order is kept.
AnySurvivors(place) == SUBSET Within(fs, place)
Survivors(place) ==
  {S \in SUBSET Within(fs, place) :
     \A q \in S : \A n \in Len(place)..Len(q) : SubSeq(q, 1, n) \in S}

Removals(path) ==
  LET place == Place(fs, path)
  IN IF ~exists(path) \/ (is_dir(path) /\ is_link(path)) THEN {fs}
     ELSE IF is_dir(path)
     THEN {Without(fs, Within(fs, place) \ S) : S \in Survivors(place)}
     ELSE {Without(fs, {place})}

DoRemove ==
  /\ Doing("remove")
  /\ Now.from # <<>>
  /\ fs' \in Removals(Now.from)
  /\ Continue(<<>>)
  /\ UNCHANGED <<op, result, before>>

\* make_link(to, from): whatever is there is removed, and os.symlink fails if
\* it still is.
DoLink ==
  /\ Doing("link")
  /\ CanMakeParent(Now.to)
  /\ fs' = WithParent(Now.to)
  /\ Continue(<<Step("remove", Now.to, Now.to), Step("symlink", Now.from, Now.to)>>)
  /\ UNCHANGED <<op, result, before>>

DoSymlink ==
  /\ Doing("symlink")
  /\ ~exists(Now.to) /\ is_dir(Parent(Now.to))
  /\ fs' = With(fs, {Place(fs, Now.to)}, Link(Now.from))
  /\ Continue(<<>>)
  /\ UNCHANGED <<op, result, before>>

-----------------------------------------------------------------------------
(* Steps on text                                                           *)

\* open(path, "w") and open(path, "a"), after make_parent_dir.
DoOpen ==
  LET f == WithParent(Now.to)
      place == Real(f, Now.to)
      text == IF Now.do = "open_a" /\ place \in DOMAIN f THEN f[place].text ELSE <<>>
  IN /\ outcome = "running" /\ agenda # <<>>
     /\ Now.do \in {"open_w", "open_a"}
     /\ CanMakeParent(Now.to)
     /\ CanOpen(f, Now.to)
     /\ fs' = With(f, {place}, File(text))
     /\ Continue(<<>>)
     /\ UNCHANGED <<op, result, before>>

Extended(path, lines) == With(fs, {Real(fs, path)}, File(Text(path) \o lines))

DoWrite ==
  /\ Doing("write")
  /\ fs' = Extended(Now.to, Now.lines)
  /\ Continue(<<>>)
  /\ UNCHANGED <<op, result, before>>

\* prepend_lines reads the file before it is opened for writing.  Mutant: it is
\* opened first.
WriteThenRead(path) ==
  <<Step("open_w", path, path), WriteStep(path, <<NewLine>>), Step("add", path, path)>>
ReadThenWrite(path) ==
  <<Step("open_w", path, path), WriteStep(path, <<NewLine>> \o Text(path))>>

\* replace_in_file reads, replaces and writes.
Replaced(path) ==
  <<Step("open_w", path, path), WriteStep(path, [n \in DOMAIN Text(path) |-> NewLine])>>

DoRead ==
  /\ Doing("prepend") \/ Doing("replace")
  /\ is_file(Now.to)
  /\ Continue(IF Now.do = "replace" THEN Replaced(Now.to) ELSE ReadThenWrite(Now.to))
  /\ UNCHANGED <<fs, op, result, before>>

\* concatenate copies the next input, if there is such an entry.  What has been
\* written is still in the buffer when the input is the output itself.
DoAdd ==
  /\ Doing("add")
  /\ IF ~exists(Now.from) THEN UNCHANGED fs
     ELSE /\ is_file(Now.from)
          /\ fs' = IF Real(fs, Now.from) = Real(fs, Now.to) THEN fs
                   ELSE Extended(Now.to, Text(Now.from))
  /\ Continue(<<>>)
  /\ UNCHANGED <<op, result, before>>

\* tail_lines: lines[-count:], where -0 is 0.
Sliced(lines, count) ==
  IF count = 0 \/ count >= Len(lines) THEN lines
  ELSE SubSeq(lines, Len(lines) - count + 1, Len(lines))

DoTail ==
  /\ Doing("tail")
  /\ is_file(Now.to)
  /\ result' = Sliced(Text(Now.to), op.count)
  /\ Continue(<<>>)
  /\ UNCHANGED <<fs, op, before>>

\* touch: utime(), or an append of nothing.
DoTouch ==
  /\ Doing("touch")
  /\ Continue(IF Leads(Now.to) THEN <<>> ELSE <<Step("open_a", Now.to, Now.to)>>)
  /\ UNCHANGED <<fs, op, result, before>>

\* await_exists looks again after every sleep, while others may make the path; its
\* timer ends it like any failure.
DoAwait ==
  /\ Doing("await")
  /\ Continue(IF exists(Now.to) THEN <<>> ELSE <<Step("sleep", Now.to, Now.to)>>)
  /\ UNCHANGED <<fs, op, result, before>>

DoSleep ==
  /\ Doing("sleep")
  /\ \/ UNCHANGED fs
     \/ CanOpen(fs, Now.to) /\ fs' = With(fs, {Real(fs, Now.to)}, File(<<>>))
  /\ Continue(<<Step("await", Now.to, Now.to)>>)
  /\ UNCHANGED <<op, result, before>>

\* The lines of an archive stand for its top-level entries in the order of list_dir(),
\* each with its name first.  Mutant: the last one is packed again.
LastEntry(text) == text[Len(text)]
FirstEntry(text) == text[1]

\* It gets the new name, or keeps its own inside another entry that has the new name.
NewNames(text, stem) ==
  {stem} \cup {FirstEntry(text)[1] : n \in {k \in 2..Len(text) : text[k][1] = stem}}

\* extract_archive, list_dir()[0], move and make_archive in a temporary directory: one entry
\* is packed again.  There has to be one, and it cannot be moved onto or into itself.
DoPack ==
  LET text == Text(Now.from)
      stem == Last(op.to)
  IN /\ Doing("pack")
     /\ is_file(Now.from)
     /\ text # <<>> /\ FirstEntry(text)[1] # stem
     /\ \E name \in NewNames(text, stem) :
          fs' = With(fs, {Temp}, File(<<[FirstEntry(text) EXCEPT ![1] = name]>>))
     /\ Continue(<<>>)
     /\ UNCHANGED <<op, result, before>>

\* What a step that fails may have done before.
Partly ==
  \/ UNCHANGED fs
  \/ Now.do \in {"open_w", "open_a"} /\ CanMakeParent(Now.to) /\ fs' = WithParent(Now.to)
  \/ Now.do = "file" /\ CanCopyFile
     /\ fs' = With(fs, {Real(fs, CopyTarget)}, File(<<>>))
  \/ Now.do = "remove" /\ Now.from # <<>> /\ fs' \in Removals(Now.from)
  \/ /\ Now.do = "write"
     /\ \E n \in 0..Len(Now.lines) : fs' = Extended(Now.to, SubSeq(Now.lines, 1, n))

\* A call fails: the kernel refuses, the disk is full, or an alarm strikes.
StepFails ==
  /\ outcome = "running" /\ agenda # <<>>
  /\ Partly
  /\ Fail
  /\ UNCHANGED <<op, result, before>>

Finish ==
  /\ outcome = "running" /\ agenda = <<>>
  /\ outcome' = "done"
  /\ UNCHANGED <<fs, op, agenda, result, before>>

-----------------------------------------------------------------------------
(* Operations                                                              *)

Operation(name, from, to, inside, count) ==
  [to |-> to, name |-> name, from |-> from, inside |-> inside, count |-> count,
   symlinks |-> TRUE]
NoOperation == Operation("none", <<>>, <<>>, FALSE, 0)

Call(operation, steps) ==
  /\ outcome = "ready"
  /\ op' = operation
  /\ agenda' = steps
  /\ outcome' = "running"
  /\ UNCHANGED <<fs, result, before>>

copy(from, to, inside, symlinks) ==
  /\ exists(from)
  /\ Call([Operation("copy", from, to, inside, 0) EXCEPT !.symlinks = symlinks],
          <<CopyStep(from, to, inside)>>)

\* Mutant: the source is removed first.
RemoveThenCopy(from, to, inside) ==
  <<Step("remove", from, from), CopyStep(from, to, inside)>>
CopyThenRemove(from, to, inside) ==
  <<CopyStep(from, to, inside), Step("remove", from, from)>>

move(from, to, inside) ==
  /\ exists(from)
  /\ Call(Operation("move", from, to, inside, 0), CopyThenRemove(from, to, inside))

remove(path) ==
  Call(Operation("remove", path, path, FALSE, 0), <<Step("remove", path, path)>>)

make_link(path, to) ==
  Call(Operation("make_link", to, path, FALSE, 0), <<Step("link", to, path)>>)

touch(path) ==
  Call(Operation("touch", path, path, FALSE, 0), <<Step("touch", path, path)>>)

write_lines(path) ==
  Call(Operation("write_lines", path, path, FALSE, 0),
       <<Step("open_w", path, path), WriteStep(path, <<NewLine>>)>>)

append_lines(path) ==
  Call(Operation("append_lines", path, path, FALSE, 0),
       <<Step("open_a", path, path), WriteStep(path, <<NewLine>>)>>)

prepend_lines(path) ==
  Call(Operation("prepend_lines", path, path, FALSE, 0), <<Step("prepend", path, path)>>)

replace_in_file(path) ==
  Call(Operation("replace_in_file", path, path, FALSE, 0), <<Step("replace", path, path)>>)

\* concatenate(path, (input, input)); path itself is refused.
concatenate(path, input) ==
  /\ path # input
  /\ Call(Operation("concatenate", input, path, FALSE, 0),
          <<Step("open_w", path, path), Step("add", input, path),
            Step("add", input, path)>>)

tail_lines(path, count) ==
  Call(Operation("tail_lines", path, path, FALSE, count), <<Step("tail", path, path)>>)

await_exists(path) ==
  Call(Operation("await_exists", path, path, FALSE, 0), <<Step("await", path, path)>>)

\* The output is beside the input, and moved there by make_archive.
rename_archive(path, name) ==
  LET to == Child(Parent(path), name)
  IN Call(Operation("rename_archive", path, to, TRUE, 0),
          <<Step("pack", path, to)>> \o CopyThenRemove(Temp, to, TRUE)
          \o <<Step("remove", path, path)>>)

Ended ==
  /\ outcome \in {"done", "error"}
  /\ UNCHANGED vars

-----------------------------------------------------------------------------
Init ==
  /\ fs \in Trees
  /\ op = NoOperation
  /\ agenda = <<>>
  /\ outcome = "ready"
  /\ result = <<>>
  /\ before = fs

Next ==
  \/ \E from, to \in Targets, inside \in BOOLEAN :
       \/ \E symlinks \in BOOLEAN : copy(from, to, inside, symlinks)
       \/ move(from, to, inside)
  \/ \E path, to \in Targets : make_link(path, to) \/ concatenate(path, to)
  \/ \E path \in Targets :
       \/ remove(path) \/ touch(path)
       \/ write_lines(path) \/ append_lines(path) \/ prepend_lines(path)
       \/ replace_in_file(path) \/ await_exists(path)
       \/ \E count \in 0..2 : tail_lines(path, count)
       \/ \E n \in DOMAIN Names : rename_archive(path, Names[n])
  \/ DoCopy \/ DoEntries \/ DoStat \/ DoFile \/ DoRemove \/ DoLink \/ DoSymlink
  \/ DoOpen \/ DoWrite \/ DoRead \/ DoAdd \/ DoTail \/ DoTouch \/ DoAwait \/ DoSleep
  \/ DoPack
  \/ StepFails \/ Finish \/ Ended

Spec == Init /\ [][Next]_vars

-----------------------------------------------------------------------------
(* Properties                                                              *)

TypeOK ==
  /\ IsTree(fs) /\ IsTree(before)
  /\ {op.from, op.to} \subseteq Seq(Words) /\ op.count \in Nat
  /\ outcome \in {"ready", "running", "done", "error"}
  /\ agenda # <<>> => outcome = "running"
  /\ result \in Seq(Seq(Words))

\* The destination of an operation, inside an existing directory when asked to be.
Real0(path) == Real(before, path)
Kind0(place) == IF place \in DOMAIN before THEN before[place].kind ELSE "none"
Text0(path) == IF Real0(path) \in DOMAIN before THEN before[Real0(path)].text ELSE <<>>

Destination ==
  IF op.inside /\ Kind0(Real0(op.to)) = "dir"
  THEN Child(op.to, IF op.name = "rename_archive" THEN Last(Temp) ELSE Last(op.from))
  ELSE op.to

\* Where the copy writes: what is at and below the source goes to the same paths at
\* and below the destination, but a file inside a directory that is there.
Source(rest) == op.from \o rest
Original(rest) ==
  IF op.symlinks THEN Place(before, Source(rest)) ELSE Real0(Source(rest))
Copied == {<<>>} \cup {rest \in Rests : Place(before, Source(rest)) \in DOMAIN before}
Target(rest) ==
  LET to == Destination \o rest
  IN IF Kind0(Real0(to)) = "dir" /\ Kind0(Original(rest)) = "file"
     THEN Child(to, Last(Source(rest)))
     ELSE to
Goals == {Destination \o rest : rest \in Rests} \cup {Target(rest) : rest \in Copied}

\* Some of that is in the source: a directory is copied into itself, through links
\* or not, or to one above it that has the same names.
Overlap ==
  \E to \in Goals :
    IsPrefix(Real0(op.from), Place(before, to)) \/ IsPrefix(Real0(op.from), Real0(to))

\* Two things are copied to one place, because of links below the destination.
Merged == Cardinality({Real0(Target(rest)) : rest \in Copied}) < Cardinality(Copied)

Texts(f) == {f[q].text : q \in {r \in DOMAIN f : f[r].kind = "file"}}

\* The first entry of an archive is still in one, maybe under another name.
EntryLeft(text, left) ==
  text # <<>> /\ \E name \in Words : <<[Head(text) EXCEPT ![1] = name]>> \in left

\* Whatever step fails, no text of a file is lost, neither that of the source of a
\* move nor that of a bystander, except what was at or below the places where the
\* operation writes, or what links there lead to, or at the path to be removed;
\* except that, where two things are copied to one place, what the source shows may be
\* written over; except that move removes what it has put into its source; and except
\* that rename_archive keeps only the first entry of the archive, and removes the rest
\* (main.py:113-131, 486-660).
NothingElseLost ==
  op.name # "none" =>
    LET left == Texts(Without(fs, {Temp}))
    IN \A q \in DOMAIN before :
         before[q].kind = "file" =>
           \/ before[q].text \in left
           \/ /\ op.name = "rename_archive" /\ q = Real0(op.from)
              /\ EntryLeft(before[q].text, left)
           \/ \E to \in Goals : IsPrefix(Place(before, to), q) \/ q = Real0(to)
           \/ Merged /\ \E rest \in Copied : q = Real0(Source(rest))
           \/ op.name = "move" /\ Overlap

\* After a copy or a move that returned, every file that was seen at or below the
\* source, also through links to directories, and to files with symlinks=False, is seen
\* at the same path below the destination, with the text it had; or, if there was a directory at that path, inside
\* that, also with inside=False; unless the copy writes into the source, twice to one
\* place, or to that file itself, seen through a link (main.py:500-533).
CopyFaithful ==
  outcome = "done" /\ op.name \in {"copy", "move"} /\ ~Overlap /\ ~Merged =>
    \A rest \in Copied :
      LET place == Original(rest)
      IN Kind0(place) = "file" /\ place \notin {Real0(to) : to \in Goals} =>
           Leads(Target(rest)) /\ fs[Real(fs, Target(rest))] = before[place]

TextOperations == {"write_lines", "append_lines", "prepend_lines", "replace_in_file",
                   "concatenate", "tail_lines", "touch"}

\* The operations on text: when they return, the file has the text they promise,
\* where a file concatenated to itself under another name ends up empty, and
\* tail_lines(file, 0) is the whole file; append and touch keep the old text
\* whatever fails; and no other file changes (main.py:486-496, 564-660).
TextAsAsked ==
  LET old == Text0(op.to)
      new == IF Leads(op.to) THEN Text(op.to) ELSE <<>>
      input == IF Real0(op.from) = Real0(op.to) THEN <<>> ELSE Text0(op.from)
  IN op.name \in TextOperations =>
     /\ outcome = "done" =>
          /\ op.name = "write_lines" => new = <<NewLine>>
          /\ op.name = "append_lines" => new = Append(old, NewLine)
          /\ op.name = "prepend_lines" => new = <<NewLine>> \o old
          /\ op.name = "replace_in_file" => new = [n \in DOMAIN old |-> NewLine]
          /\ op.name = "concatenate" => new = input \o input
          /\ op.name \in {"tail_lines", "touch"} => new = old
          /\ op.name = "tail_lines" =>
               /\ IsSuffix(result, old)
               /\ Len(result) = IF op.count \in 1..Len(old) THEN op.count ELSE Len(old)
     /\ op.name \in {"append_lines", "touch"} => IsPrefix(old, new)
     /\ \A q \in DOMAIN before \ {Real0(op.to)} : q \in DOMAIN fs /\ fs[q] = before[q]

=============================================================================
