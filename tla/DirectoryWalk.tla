--------------------------- MODULE DirectoryWalk ---------------------------
(***************************************************************************)
(* listDir() of src/0612/list.c: it lists a directory and calls itself for *)
(* each subdirectory.  Between the calls it keeps names that are pointers  *)
(* into the buffer of readdir(), and it finds its way by chdir(name) and   *)
(* chdir(".."), whose results it does not test.                            *)
(***************************************************************************)
EXTENDS Naturals, Sequences, SequencesExt, FiniteSets

CONSTANTS
  Name,       \* the names of files
  Trees,      \* what Start may be: [dirs, files], sets of paths from the root
  Buffered,   \* how many entries readdir() reads ahead at once
  MaxOpen     \* how many directories a process can have open

Start == "start"
ASSUME WalkAssumption ==
  /\ Buffered \in Nat \ {0} /\ MaxOpen \in Nat /\ "." \notin Name
  /\ \A t \in Trees :
       /\ IsFiniteSet(t.dirs \cup t.files) /\ t.dirs \cup t.files \subseteq Seq(Name \cup {Start})
       /\ <<Start>> \in t.dirs /\ t.dirs \cap t.files = {}
       /\ \A d \in t.dirs \cup t.files :
            d = <<Start>> \/ \E p \in t.dirs, n \in Name : d = Append(p, n)

VARIABLES
  dirs,       \* the directories, as paths from the root; the program gets Start
  files,      \* the other files
  mode,       \* mode[d]: what the user may do in d: r(ead) and x (enter) it
  frames,     \* the active calls of listDir(), the innermost last, see Frame
  cwd,        \* the working directory
  stat,       \* what statBuf of the innermost call says: "dir" or "file"
  listed,     \* the directories that have been listed, in order
  walk        \* what the program does next, see WalkTypeOK

walkvars == <<dirs, files, mode, frames, cwd, stat, listed, walk>>

PathName == Name \cup {Start, "."}
Below(d, n) == IF n = "." THEN d ELSE Append(d, n)
Mode     == {{"r", "x"}, {"r"}, {"x"}}
(***************************************************************************)
(* A call: the directory it has opened, the entries it has not read yet,   *)
(* how many it has read, what is in its buffer, where in it the names of   *)
(* the subdirectories are, and the index i of the second loop.             *)
(***************************************************************************)
Frame == [dir : dirs, unread : SUBSET PathName, read : Nat, buffer : Seq(PathName),
          dirName : Seq(1..Buffered), i : Nat]

\* at most one directory is not open to the user
WalkInit ==
  /\ \E t \in Trees : dirs = t.dirs \cup {<<>>} /\ files = t.files
  /\ \E d \in dirs \ {<<>>}, m \in Mode : mode = [e \in dirs |-> IF e = d THEN m ELSE {"r", "x"}]
  /\ frames = <<>> /\ cwd = <<>> /\ stat = "file" /\ listed = <<>>
  /\ walk = [at |-> "call", arg |-> Start]

WalkTypeOK ==
  /\ cwd \in dirs /\ stat \in {"dir", "file"} /\ listed \in Seq(dirs)
  /\ frames \in Seq(Frame) /\ Len(frames) <= MaxOpen
  /\ walk \in [at : {"call", "read", "loop", "fail", "over", "crashed"}, arg : PathName]

TopFrame == Last(frames)
WithTop(f) == frames' = [frames EXCEPT ![Len(frames)] = f]
WalkGoes(from, to) == walk.at = from /\ walk' = [walk EXCEPT !.at = to]

-----------------------------------------------------------------------------
Called == Below(cwd, walk.arg)

\* opendir() fails: the argument is no directory, may not be read, or is one too many
OpenFails ==
  /\ \/ Called \notin dirs
     \/ Called \in dirs /\ "r" \notin mode[Called]
     \/ Len(frames) = MaxOpen
  /\ WalkGoes("call", "fail")
  /\ UNCHANGED <<dirs, files, mode, frames, cwd, stat, listed>>

Entries(d) == {n \in Name : Append(d, n) \in dirs \cup files} \cup {"."}
\* opendir() and chdir(), which leaves the working directory as it is when it fails
OpenDir ==
  /\ Called \in dirs /\ "r" \in mode[Called] /\ Len(frames) < MaxOpen
  /\ WalkGoes("call", "read")
  /\ frames' = Append(frames, [dir |-> Called, unread |-> Entries(Called), read |-> 0,
                               buffer |-> <<>>, dirName |-> <<>>, i |-> 1])
  /\ cwd' = IF "x" \in mode[Called] THEN Called ELSE cwd
  /\ stat' = "file" /\ listed' = Append(listed, Called)
  /\ UNCHANGED <<dirs, files, mode>>

\* lstat() of the name in the working directory; when there is none, statBuf stays
Stat(n) == CASE Below(cwd, n) \in dirs  -> "dir"
             [] Below(cwd, n) \in files -> "file"
             [] OTHER                   -> stat

\* readdir() and the body of its loop, for an entry whose turn it is; ".." is left
\* out, as for "." here it only changes statBuf
ReadDir(n) ==
  LET slot == (TopFrame.read % Buffered) + 1
  IN  /\ WalkGoes("read", "read") /\ n \in TopFrame.unread
      /\ stat' = Stat(n)
      /\ WithTop([TopFrame EXCEPT
           !.unread  = @ \ {n}, !.read = @ + 1,
           !.buffer  = IF slot > Len(@) THEN Append(@, n) ELSE [@ EXCEPT ![slot] = n],
           !.dirName = IF Stat(n) = "dir" /\ n # "." THEN Append(@, slot) ELSE @])
      /\ UNCHANGED <<dirs, files, mode, cwd, listed>>
\* an entry, ".." too, whose owner or group has no name: getpwuid() or getgrgid() returns
\* NULL, which the printf() of the entry reads
NoSuchOwner ==
  /\ WalkGoes("read", "crashed")
  /\ UNCHANGED <<dirs, files, mode, frames, cwd, stat, listed>>
EndOfDir ==
  /\ WalkGoes("read", "loop") /\ TopFrame.unread = {}
  /\ UNCHANGED <<dirs, files, mode, frames, cwd, stat, listed>>

\* the recursive call, of the name that is now where dirName[i] points
Recurse ==
  /\ walk.at = "loop" /\ frames # <<>> /\ TopFrame.i <= Len(TopFrame.dirName)
  /\ walk' = [at |-> "call", arg |-> TopFrame.buffer[TopFrame.dirName[TopFrame.i]]]
  /\ UNCHANGED <<dirs, files, mode, frames, cwd, stat, listed>>

\* a call has returned -1: break; main() does not test it
BreakLoop ==
  /\ WalkGoes("fail", IF frames = <<>> THEN "over" ELSE "loop")
  /\ IF frames = <<>> THEN UNCHANGED frames
     ELSE WithTop([TopFrame EXCEPT !.i = Len(TopFrame.dirName) + 1])
  /\ UNCHANGED <<dirs, files, mode, cwd, stat, listed>>

\* (mutant: the call returns without chdir(".."))
StayThere   == cwd
\* the parent of the working directory; that of the root is the root
DirectoryUp == IF cwd = <<>> THEN <<>> ELSE Front(cwd)
\* closedir(), chdir("..") and the return; the caller goes on with its next name
CloseDir ==
  /\ frames # <<>> /\ TopFrame.i > Len(TopFrame.dirName)
  /\ WalkGoes("loop", IF Len(frames) = 1 THEN "over" ELSE "loop")
  /\ cwd' = DirectoryUp
  /\ frames' = IF Len(frames) = 1 THEN <<>>
               ELSE [Front(frames) EXCEPT ![Len(frames) - 1].i = @ + 1]
  /\ UNCHANGED <<dirs, files, mode, stat, listed>>

WalkNext ==
  \/ OpenFails \/ OpenDir \/ NoSuchOwner \/ EndOfDir \/ Recurse \/ BreakLoop \/ CloseDir
  \/ \E n \in PathName : ReadDir(n)

WalkSpec == WalkInit /\ [][WalkNext]_walkvars

-----------------------------------------------------------------------------
(* What must hold.                                                         *)

AllMay(m) == \A d \in dirs : m \in mode[d]
Small     == \A d \in dirs : Cardinality(Entries(d)) <= Buffered

\* The working directory is the one that is being listed, so that lstat() and
\* opendir() of its entries' names (38, 28) find them, and no directory is listed
\* twice: when every directory that can be read can be entered (33), and the
\* entries of each fit the buffer that dirName points into (81).  If each can be
\* read too, all are listed (otherwise, 102, a sibling of one that cannot is not).
WalksTheTree ==
  AllMay("x") /\ Small =>
    /\ walk.at \in {"read", "loop"} => cwd = TopFrame.dir
    /\ IsInjective(listed)
    /\ walk.at = "over" /\ AllMay("r") /\ (\A d \in dirs : Len(d) <= MaxOpen) => ToSet(listed) = dirs \ {<<>>}
=============================================================================
