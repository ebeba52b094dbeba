------------------------------ MODULE Uploads -------------------------------
(***************************************************************************)
(* Uploads of files to one path of a guest: sftpPut of guest-files.tsx in  *)
(* the browser, the stream in guest-file-upload.ts or guest-file-node.ts,  *)
(* and sftpUploadFromStream of guest-files.ts, which writes a part file    *)
(* beside the destination and renames it when its size is right.           *)
(*                                                                         *)
(* Every upload is a session.  The browser waits for one at a time, but    *)
(* the server may still be at work on those it gave up, and the program at *)
(* the far end of an SSH channel outlives the channel.  All sessions share *)
(* the part file, its .meta and the destination; an action is one SFTP or  *)
(* shell call of a session, or one event.                                  *)
(*                                                                         *)
(* A file is a sequence of chunks, and its identity (size and hash of the  *)
(* first 64 KB) is the file itself: files that agree in both are one here. *)
(***************************************************************************)
EXTENDS Naturals, Sequences

CONSTANTS
  Sessions,  \* bound: uploads the server works on at once
  Files,     \* what is uploaded to the path
  Size,      \* Size[f]: how many chunks the file f has
  NoFile,
  MaxStops   \* bound: cancels, lost connections, restarts, discards

ASSUME UploadAssumption ==
  /\ NoFile \notin Files
  /\ Size \in [Files -> Nat \ {0}]
  /\ MaxStops \in Nat

Hole   == <<NoFile, 0>>
Absent == <<<<NoFile, 1>>>>
Before == <<<<NoFile, 2>>>>  \* what was at the path before

Prefix(f, n) == [i \in 1..n |-> <<f, i>>]
Whole(f) == Prefix(f, Size[f])
SizeOf(q) == IF q = Absent THEN 0 ELSE Len(q)

VARIABLES
  dest,    \* the file at the path, or Absent
  part,    \* the part file, or Absent
  meta,    \* whose identity .meta holds, or NoFile
  sess,    \* sess[s]: the sessions
  live,    \* the session the browser waits for (none or one)
  stops,
  spoiled  \* history: a session went on with the part or .meta after someone
           \* else had changed them since its check, or continued a part of which it
           \* could not read the identity, or an SFTP write was refused

vars == <<dest, part, meta, sess, live, stops, spoiled>>
Guest == <<dest, part, meta>>

\* pc: where it stands; off: chunks to skip; seen, mark: size and identity it
\* read; way: how it writes; to: the name its open file has now; at: the next
\* chunk; gone: the browser gave it up; alone: history, see spoiled.
Free == [pc |-> "free", file |-> NoFile, off |-> 0, seen |-> 0, mark |-> NoFile,
         way |-> "cat", to |-> "none", at |-> 1, gone |-> FALSE, alone |-> TRUE]

Asking   == {"size", "meta", "ask"}
BeforeBody == {"have", "stored", "unpart", "unmeta", "name", "open", "skip"}
AfterBody  == {"stat", "undest", "rename", "clean"}

Chunks == {Hole} \cup (Files \X Nat)

TypeOK ==
  /\ {dest, part} \subseteq {Absent, Before} \cup Seq(Chunks)
  /\ meta \in Files \cup {NoFile}
  /\ sess \in [Sessions ->
       [pc : {"free", "write", "dying"} \cup Asking \cup BeforeBody \cup AfterBody,
        file : Files \cup {NoFile}, off : Nat, seen : Nat,
        mark : Files \cup {NoFile}, way : {"cat", "append", "sftp"},
        to : {"none", "part", "dest", "orphan"}, at : Nat \ {0},
        gone : BOOLEAN, alone : BOOLEAN]]
  /\ \A s \in Sessions : sess[s].off > 0 => sess[s].off <= Size[sess[s].file]
  /\ live \subseteq Sessions
  /\ stops \in 0..MaxStops /\ spoiled \in BOOLEAN

\* The path is free or taken, and an earlier upload may have left its part.
Init ==
  /\ dest \in {Absent, Before}
  /\ \/ part = Absent /\ meta = NoFile
     \/ \E f \in Files : (\E n \in 1..Size[f] : part = Prefix(f, n)) /\ meta = f
  /\ sess = [s \in Sessions |-> Free]
  /\ live = {} /\ stops = 0 /\ spoiled = FALSE

Stopped == stops < MaxStops /\ stops' = stops + 1

Goes(s, pc) == sess' = [sess EXCEPT ![s].pc = pc]

\* The session ends, with an error or not; the browser hears of it.
Ends(s) == sess' = [sess EXCEPT ![s] = Free] /\ live' = live \ {s}

\* s, from now on r, changes the part or .meta, and is no longer alone with
\* them when somebody else has done so since its check.  Files that are open
\* under the name `from` go by `name` then.
Changes(s, r, from, name) ==
  /\ sess' = [t \in Sessions |->
                LET q == IF t = s THEN r ELSE [sess[t] EXCEPT !.alone = FALSE]
                IN IF q.to = from THEN [q EXCEPT !.to = name] ELSE q]
  /\ spoiled' = (spoiled \/ ~sess[s].alone)

ChangesOnly(s, r) == Changes(s, r, "none", "none")

(***************************** The browser *********************************)

\* sftpPut asks for a ticket, which comes with the state of the part.
Start(s) ==
  /\ live = {} /\ sess[s].pc = "free"
  /\ \E f \in Files :
       sess' = [sess EXCEPT ![s] = [Free EXCEPT !.pc = "size", !.file = f]]
  /\ live' = {s}
  /\ UNCHANGED <<Guest, stops, spoiled>>

\* upload-state: the size of the part (0 when asking fails) ...
AskSize(s) ==
  /\ sess[s].pc = "size"
  /\ \/ sess' = [sess EXCEPT ![s].pc = "meta", ![s].seen = SizeOf(part)]
     \/ Goes(s, "ask")
  /\ UNCHANGED <<Guest, live, stops, spoiled>>

\* readUploadMeta: a .meta that cannot be read counts as none.
Reads(id) == \/ id = meta /\ UNCHANGED stops
             \/ id = NoFile /\ meta # NoFile /\ Stopped

\* ... and its identity.
AskMeta(s) ==
  /\ sess[s].pc = "meta"
  /\ \E id \in {meta, NoFile} :
       /\ Reads(id)
       /\ sess' = [sess EXCEPT ![s].pc = "ask", ![s].mark = id]
  /\ UNCHANGED <<Guest, live, spoiled>>

\* Mutant of Resumable: the size of the file is not looked at.
ResumableAny(s) == sess[s].seen > 0 /\ sess[s].mark \in {NoFile, sess[s].file}

\* Mutant of Resumable: a part of any file of the size will do.
ResumableBySize(s) == sess[s].seen \in 1..Size[sess[s].file]

\* guestUploadResumeOffset and guestUploadIdentitiesMatch
Resumable(s) ==
  /\ sess[s].seen \in 1..Size[sess[s].file]
  /\ sess[s].mark \in {NoFile, sess[s].file}

\* askResume: the user continues a part that matches, or starts over.
Choose(s) ==
  /\ sess[s].pc = "ask"
  /\ \E n \in {0} \cup {m \in {sess[s].seen} : Resumable(s)} :
       sess' = [sess EXCEPT ![s] = [Free EXCEPT !.pc = "have", !.file = sess[s].file,
                                                !.off = n]]
  /\ UNCHANGED <<Guest, live, stops, spoiled>>

(************************* sftpUploadFromStream ****************************)

HaveSize(s) ==
  /\ sess[s].pc = "have"
  /\ sess' = [sess EXCEPT ![s].pc = "stored", ![s].seen = SizeOf(part),
                          ![s].alone = TRUE]
  /\ UNCHANGED <<Guest, live, stops, spoiled>>

\* Mutant of Fits: the part may have grown since the browser asked.
FitsRoughly(s, id) == sess[s].seen >= sess[s].off /\ id \in {NoFile, sess[s].file}

\* Mutant of Fits: only the browser compares the identities.
FitsInSize(s, id) == sess[s].seen = sess[s].off

\* The part is still the one that the browser was told about.
Fits(s, id) == sess[s].seen = sess[s].off /\ id \in {NoFile, sess[s].file}

\* readUploadMeta, and what follows from it.
Check(s) ==
  /\ sess[s].pc = "stored"
  /\ \E id \in {meta, NoFile} :
       /\ Reads(id)
       /\ \/ /\ sess[s].off = 0 /\ Goes(s, "unpart")
             /\ UNCHANGED <<live, spoiled>>
          \/ /\ sess[s].off > 0 /\ Fits(s, id)
             /\ Goes(s, IF sess[s].off = Size[sess[s].file] THEN "skip" ELSE "open")
             /\ spoiled' = (spoiled \/ id = NoFile)
             /\ UNCHANGED live
          \/ /\ sess[s].off > 0 /\ ~Fits(s, id)
             /\ Ends(s)
             /\ UNCHANGED spoiled
  /\ UNCHANGED Guest

\* clearUploadSidecars ...
UnlinkPart(s) ==
  /\ sess[s].pc = "unpart"
  /\ part' = Absent
  /\ Changes(s, [sess[s] EXCEPT !.pc = "unmeta"], "part", "orphan")
  /\ UNCHANGED <<dest, meta, live, stops>>

UnlinkMeta(s) ==
  /\ sess[s].pc = "unmeta"
  /\ meta' = NoFile
  /\ ChangesOnly(s, [sess[s] EXCEPT !.pc = "name"])
  /\ UNCHANGED <<dest, part, live, stops>>

\* ... and writeUploadMeta.
WriteMeta(s) ==
  /\ sess[s].pc = "name"
  /\ meta' = sess[s].file
  /\ ChangesOnly(s, [sess[s] EXCEPT !.pc = "open"])
  /\ UNCHANGED <<dest, part, live, stops>>

\* The part is opened: by cat in a POSIX shell (> truncates, >> appends; both
\* create it) or, when the probe finds none, as an SFTP handle (w truncates, r+
\* needs the file).
Open(s) ==
  /\ sess[s].pc = "open"
  /\ \E way \in {"cat", "sftp"} :
       LET w == IF way = "cat" /\ sess[s].off > 0 THEN "append" ELSE way
           r == [sess[s] EXCEPT !.pc = "write", !.way = w, !.to = "part",
                                !.at = sess[s].off + 1, !.off = 0, !.seen = 0]
       IN \/ /\ w = "sftp" /\ sess[s].off > 0 /\ part = Absent
             /\ Ends(s)
             /\ UNCHANGED <<part, spoiled>>
          \/ /\ w # "sftp" \/ sess[s].off = 0 \/ part # Absent
             /\ part' = IF sess[s].off = 0 \/ part = Absent THEN <<>> ELSE part
             /\ ChangesOnly(s, r)
             /\ UNCHANGED live
  /\ UNCHANGED <<dest, meta, stops>>

\* The file q after s wrote its next chunk: >> appends, everything else writes
\* at its own position.
Written(s, q) ==
  LET x == <<sess[s].file, sess[s].at>>
      n == IF sess[s].way = "append" THEN Len(q) + 1 ELSE sess[s].at
  IN [i \in 1..(IF n > Len(q) THEN n ELSE Len(q)) |->
        IF i = n THEN x ELSE IF i <= Len(q) THEN q[i] ELSE Hole]

\* s, now r, has written a chunk, wherever its open file is by now.
Puts(s, r) ==
  /\ part' = IF sess[s].to = "part" THEN Written(s, part) ELSE part
  /\ dest' = IF sess[s].to = "dest" THEN Written(s, dest) ELSE dest
  /\ \/ sess[s].to # "orphan" /\ ChangesOnly(s, r)
     \/ sess[s].to = "orphan" /\ sess' = [sess EXCEPT ![s] = r] /\ UNCHANGED spoiled

WriteChunk(s) ==
  /\ sess[s].pc = "write" /\ ~sess[s].gone /\ sess[s].at <= Size[sess[s].file]
  /\ Puts(s, [sess[s] EXCEPT !.at = @ + 1])
  /\ UNCHANGED <<meta, live, stops>>

\* The body has ended and everything is written.
CloseFile(s) ==
  /\ sess[s].pc = "write" /\ sess[s].at > Size[sess[s].file]
  /\ sess' = [sess EXCEPT ![s].pc = "stat", ![s].to = "none", ![s].at = 1, ![s].way = "cat"]
  /\ UNCHANGED <<Guest, live, stops, spoiled>>

\* skipWrite: nothing is left to write, the body is read to its end.
Skip(s) ==
  /\ sess[s].pc = "skip" /\ ~sess[s].gone
  /\ Goes(s, "stat")
  /\ UNCHANGED <<Guest, live, stops, spoiled>>

\* A session that waits for a body that is gone waits forever; nothing more
\* comes of it, and the model uses its place again.
Hang(s) ==
  /\ sess[s].pc \in {"write", "skip"} /\ sess[s].gone
  /\ Ends(s)
  /\ UNCHANGED <<Guest, stops, spoiled>>

\* finalizeGuestUploadPart: the size must be right ...
StatPart(s) ==
  /\ sess[s].pc = "stat"
  /\ IF SizeOf(part) = Size[sess[s].file]
       THEN Goes(s, "undest") /\ UNCHANGED live
       ELSE Ends(s)
  /\ UNCHANGED <<Guest, stops, spoiled>>

\* ... then the destination is removed, ...
UnlinkDest(s) ==
  /\ sess[s].pc = "undest"
  /\ dest' = Absent
  /\ sess' = [t \in Sessions |->
                IF t = s THEN [sess[t] EXCEPT !.pc = "rename"]
                ELSE IF sess[t].to = "dest" THEN [sess[t] EXCEPT !.to = "orphan"]
                ELSE sess[t]]
  /\ spoiled' = (spoiled \/ ~sess[s].alone)
  /\ UNCHANGED <<part, meta, live, stops>>

\* ... the part renamed (which fails when there is no part, or a destination
\* again), ...
Rename(s) ==
  /\ sess[s].pc = "rename"
  /\ \/ /\ part # Absent /\ dest = Absent
        /\ dest' = part /\ part' = Absent
        /\ Changes(s, [sess[s] EXCEPT !.pc = "clean"], "part", "dest")
        /\ UNCHANGED live
     \/ /\ part = Absent \/ dest # Absent
        /\ Ends(s)
        /\ UNCHANGED <<dest, part, spoiled>>
  /\ UNCHANGED <<meta, stops>>

\* ... and the identity removed.
CleanMeta(s) ==
  /\ sess[s].pc = "clean"
  /\ meta' = NoFile
  /\ ChangesOnly(s, Free) /\ live' = live \ {s}
  /\ UNCHANGED <<dest, part, stops>>

(******************************* Events ************************************)

\* What is left of a session whose channel is torn down: while it wrote, the
\* program (or SFTP server) at the other end, with what it has received.
Cut(r) == IF r.pc \in {"write", "dying"} THEN [r EXCEPT !.pc = "dying"] ELSE Free

\* The browser gives its upload up (cancel, reload, lost network).  The server
\* sees that only when it reads the body: an upload that waits for one that is
\* gone already never ends.
Cancel(s) ==
  /\ s \in live /\ Stopped
  /\ live' = {}
  /\ sess' = [sess EXCEPT ![s] =
       IF @.pc \in BeforeBody \cup AfterBody THEN [@ EXCEPT !.gone = TRUE] ELSE Cut(@)]
  /\ UNCHANGED <<Guest, spoiled>>

\* A call to the guest fails or the connection to it is lost.
Lose(s) ==
  /\ sess[s].pc \in {"write"} \cup BeforeBody \cup AfterBody /\ Stopped
  /\ sess' = [sess EXCEPT ![s] = Cut(@)]
  /\ live' = live \ {s}
  /\ UNCHANGED <<Guest, spoiled>>

\* The server process ends: a restart, or the error event of a WebSocket body
\* that is destroyed before anybody listens.
Crash ==
  /\ Stopped
  /\ sess' = [s \in Sessions |-> Cut(sess[s])]
  /\ live' = {}
  /\ UNCHANGED <<Guest, spoiled>>

\* An SFTP write is refused while a later one, sent already, is not.
Refuse(s) ==
  /\ sess[s].pc = "write" /\ sess[s].way = "sftp" /\ ~sess[s].gone
  /\ sess[s].at < Size[sess[s].file] /\ Stopped
  /\ sess' = [sess EXCEPT ![s].pc = "dying", ![s].at = @ + 1]
  /\ live' = live \ {s}
  /\ spoiled' = TRUE
  /\ UNCHANGED Guest

\* The far end of a torn channel writes what it still has, or is killed.
Die(s) ==
  /\ sess[s].pc = "dying"
  /\ \/ sess[s].at <= Size[sess[s].file] /\ Puts(s, Free)
     \/ sess' = [sess EXCEPT ![s] = Free] /\ UNCHANGED <<part, dest, spoiled>>
  /\ UNCHANGED <<meta, live, stops>>

\* The user discards the part in the list, or listing removes it after 14 days.
Discard ==
  /\ part # Absent /\ Stopped
  /\ part' = Absent /\ meta' = NoFile
  /\ sess' = [s \in Sessions |->
       [sess[s] EXCEPT !.alone = FALSE, !.to = IF @ = "part" THEN "orphan" ELSE @]]
  /\ UNCHANGED <<dest, live, spoiled>>

Step(s) ==
  \/ AskSize(s) \/ AskMeta(s) \/ Choose(s) \/ HaveSize(s) \/ Check(s)
  \/ UnlinkPart(s) \/ UnlinkMeta(s) \/ WriteMeta(s) \/ Open(s) \/ WriteChunk(s)
  \/ CloseFile(s) \/ Skip(s) \/ Hang(s) \/ StatPart(s) \/ UnlinkDest(s) \/ Rename(s)
  \/ CleanMeta(s) \/ Die(s)

Next ==
  \/ \E s \in Sessions : Start(s) \/ Step(s) \/ Cancel(s) \/ Lose(s) \/ Refuse(s)
  \/ Crash \/ Discard

Spec == Init /\ [][Next]_vars

\* The user tries again as long as it takes, and the guest answers.
FairSpec ==
  /\ Spec
  /\ WF_vars(\E s \in Sessions : Start(s))
  /\ \A s \in Sessions : WF_vars(Step(s))

(***************************** Properties **********************************)

\* An upload that is reported as done has left exactly its file at the path,
\* whatever was cancelled, resumed, lost or restarted before (CHANGELOG.md:702,
\* 710), as long as nobody interferes between a session's check and its end.
DoneIsTrue ==
  \A s \in Sessions :
    sess[s].pc = "clean" /\ sess[s].alone /\ ~spoiled => dest = Whole(sess[s].file)

\* The path behaves as FileReplace: no cancel, crash or resume leaves a piece
\* of a file there, or removes the old one without a whole one beside it.
Path == INSTANCE FileReplace WITH
          file <- dest, beside <- part, Missing <- Absent,
          Complete <- {Whole(f) : f \in Files}

Replaces == Path!Spec

\* A user who keeps trying gets a file there, however the interruptions, the
\* leftovers of earlier attempts and the sessions given up fall together.
Arrives == <>(dest \in {Whole(f) : f \in Files})

=============================================================================
