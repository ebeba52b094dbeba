--------------------------- MODULE Uploads_proofs ---------------------------
(* Proofs about Uploads, for every set of files of any size, every number   *)
(* of sessions and every bound: an upload that is done has left its file    *)
(* and the path behaves as FileReplace.                                     *)
EXTENDS Uploads, TLAPS

USE UploadAssumption

(***************************** Part files **********************************)

LEMMA PrefixLength ==
  ASSUME NEW f \in Files, NEW n \in Nat
  PROVE  /\ Prefix(f, n) # Absent
         /\ SizeOf(Prefix(f, n)) = n /\ Len(Prefix(f, n)) = n
<1>1. Prefix(f, n) \in Seq(Files \X Nat)
  BY DEF Prefix
<1>2. Len(Prefix(f, n)) = n
  BY <1>1 DEF Prefix
<1>3. Prefix(f, n) # Absent
  BY <1>1, <1>2 DEF Prefix, Absent
<1> QED BY <1>2, <1>3 DEF SizeOf

\* The next chunk of a file after a prefix of it makes the next prefix, with
\* either way of writing.
LEMMA PrefixGrows ==
  ASSUME NEW s \in Sessions, sess[s].file \in Files, sess[s].at \in Nat \ {0}
  PROVE  Written(s, Prefix(sess[s].file, sess[s].at - 1)) = Prefix(sess[s].file, sess[s].at)
<1> DEFINE q == Prefix(sess[s].file, sess[s].at - 1)
<1>1. Len(q) = sess[s].at - 1
  BY PrefixLength
<1>2. Written(s, q) = [i \in 1..sess[s].at |->
          IF i = sess[s].at THEN <<sess[s].file, sess[s].at>>
          ELSE IF i <= Len(q) THEN q[i] ELSE Hole]
  <2>1. (IF sess[s].way = "append" THEN Len(q) + 1 ELSE sess[s].at) = sess[s].at
    BY <1>1
  <2>2. (IF sess[s].at > Len(q) THEN sess[s].at ELSE Len(q)) = sess[s].at
    BY <1>1
  <2> HIDE DEF q
  <2> QED BY <2>1, <2>2 DEF Written
<1>3. \A i \in 1..sess[s].at : i # sess[s].at => i <= Len(q) /\ q[i] = <<sess[s].file, i>>
  BY <1>1 DEF Prefix
<1> QED BY <1>2, <1>3 DEF Prefix

(*************************** The invariant *********************************)

Points == {"free", "write", "dying"} \cup Asking \cup BeforeBody \cup AfterBody
Session ==
  [pc : Points, file : Files \cup {NoFile}, off : Nat, seen : Nat,
   mark : Files \cup {NoFile}, way : {"cat", "append", "sftp"},
   to : {"none", "part", "dest", "orphan"}, at : Nat \ {0},
   gone : BOOLEAN, alone : BOOLEAN]

\* What a session alone knows whatever happens around it.
Sound(r) ==
  /\ r \in Session
  /\ r.pc # "free" => r.file \in Files
  /\ r.file \in Files => r.off <= Size[r.file]
  /\ r.off > 0 => r.file \in Files
  /\ r.pc \in {"unpart", "unmeta", "name"} => r.off = 0
  /\ r.pc \in {"write", "dying"} => r.at <= Size[r.file] + 1
  /\ r.to # "none" => r.pc \in {"write", "dying"}
  /\ r.to = "dest" => ~r.alone

Sessionwise == sess \in [Sessions -> Session] /\ \A s \in Sessions : Sound(sess[s])

\* What session r finds in the part q, .meta m and at the path (d) as long as
\* nobody interferes.
Finds(r, q, m, d) ==
  /\ r.pc = "stored" => r.seen = SizeOf(q)
  /\ r.pc \in {"unmeta", "name"} => q = Absent
  /\ r.pc = "open" => /\ m = r.file
                      /\ q = IF r.off = 0 THEN Absent ELSE Prefix(r.file, r.off)
  /\ r.pc \in {"write", "dying"} =>
       /\ m = r.file /\ r.to = "part" /\ q = Prefix(r.file, r.at - 1)
  /\ r.pc \in {"skip", "stat", "undest", "rename"} => q = Whole(r.file)
  /\ r.pc = "clean" => q = Absent /\ d = Whole(r.file)

\* .meta tells the truth about the part.
MetaTrue(m, q) ==
  m \in Files => q = Absent \/ \E n \in 0..Size[m] : q = Prefix(m, n)

Unspoiled ==
  ~spoiled => /\ MetaTrue(meta, part)
              /\ \A s \in Sessions : sess[s].alone => Finds(sess[s], part, meta, dest)

\* The part and the file at the path have their types, and a file that is open
\* under a name is one.
Typed ==
  /\ part \in {Absent} \cup Seq(Chunks) /\ dest \in {Absent, Before} \cup Seq(Chunks)
  /\ \A s \in Sessions : /\ sess[s].to = "part" => part \in Seq(Chunks)
                         /\ sess[s].to = "dest" => dest \in Seq(Chunks)
  /\ meta \in Files \cup {NoFile}

IInv == Sessionwise /\ Typed /\ Unspoiled

(****************************** Sessions ***********************************)

LEMMA FreeSound == Sound(Free)
BY DEF Sound, Free, Session, Points, Asking, BeforeBody, AfterBody

\* A fresh session for file f at pc, with n chunks to skip.
LEMMA NewSound ==
  ASSUME NEW f \in Files, NEW pc \in {"size", "have"}, NEW n \in 0..Size[f]
  PROVE  Sound([Free EXCEPT !.pc = pc, !.file = f, !.off = n])
<1> DEFINE r == [Free EXCEPT !.pc = pc, !.file = f, !.off = n]
<1>1. Free \in Session /\ Free.to = "none"
  BY FreeSound DEF Sound, Free
<1>2. pc \in Points /\ f \in Files \cup {NoFile} /\ n \in Nat
  BY DEF Points, Asking, BeforeBody
<1>3. r \in Session
  BY <1>1, <1>2, Zenon DEF Session
<1>4. r.pc = pc /\ r.file = f /\ r.off = n /\ r.to = "none"
  BY <1>1, <1>2, Zenon DEF Session
<1>5. n <= Size[f] /\ pc \notin {"free", "write", "dying"}
  OBVIOUS
<1> HIDE DEF r
<1>6. Sound(r)
  BY <1>3, <1>4, <1>5 DEF Sound
<1> QED BY <1>6 DEF r

\* A step that changes session s alone.
LEMMA OneSound ==
  ASSUME Sessionwise, NEW s \in Sessions, NEW r, Sound(r), sess' = [sess EXCEPT ![s] = r]
  PROVE  Sessionwise'
BY DEF Sessionwise, Sound

\* An open file goes by another name.
LEMMA Renamed ==
  ASSUME NEW q, Sound(q), ~q.alone, NEW name \in {"none", "dest", "orphan"},
         name # "none" => q.pc \in {"write", "dying"}
  PROVE  Sound([q EXCEPT !.to = name])
<1> DEFINE r == [q EXCEPT !.to = name]
<1>1. q \in Session /\ name \in {"none", "part", "dest", "orphan"}
  BY DEF Sound
<1>2. /\ r \in Session /\ r.pc = q.pc /\ r.file = q.file /\ r.off = q.off
      /\ r.at = q.at /\ r.alone = q.alone /\ r.to = name
  BY <1>1, Zenon DEF Session
<1> HIDE DEF r
<1>3. Sound(r)
  BY <1>2 DEF Sound
<1> QED BY <1>3 DEF r

\* A step that takes the part, .meta or open files away from the others.
LEMMA ChangesSound ==
  ASSUME Sessionwise, NEW s \in Sessions, NEW r, Sound(r),
         NEW from \in {"none", "part"}, r.to # "none" => r.to # from,
         NEW name \in {"none", "dest", "orphan"}, from = "none" <=> name = "none",
         Changes(s, r, from, name)
  PROVE  Sessionwise' /\ sess'[s] = r
<1> USE DEF Sessionwise
<1>1. sess' = [t \in Sessions |->
                LET q == IF t = s THEN r ELSE [sess[t] EXCEPT !.alone = FALSE]
                IN IF q.to = from THEN [q EXCEPT !.to = name] ELSE q]
  BY DEF Changes
<1>2. sess'[s] = r
  <2>1. r.to = from => [r EXCEPT !.to = name] = r
    BY DEF Sound, Session
  <2> QED BY <1>1, <2>1
<1>3. ASSUME NEW t \in Sessions, t # s PROVE Sound(sess'[t])
  <2> DEFINE q == [sess[t] EXCEPT !.alone = FALSE]
  <2>1. Sound(q) /\ ~q.alone
    <3>1. Sound(sess[t]) /\ sess[t] \in Session
      BY DEF Sound
    <3>2. /\ q \in Session /\ q.pc = sess[t].pc /\ q.file = sess[t].file
          /\ q.off = sess[t].off /\ q.at = sess[t].at /\ q.to = sess[t].to
          /\ ~q.alone
      BY <3>1, Zenon DEF Session
    <3> HIDE DEF q
    <3> QED BY <3>1, <3>2 DEF Sound
  <2>2. ASSUME q.to = from PROVE Sound([q EXCEPT !.to = name])
    <3>1. q.to # "none" => name \in {"dest", "orphan"} /\ q.pc \in {"write", "dying"}
      BY <2>1, <2>2 DEF Sound
    <3>2. q.to = "none" => name = "none"
      BY <2>2
    <3> HIDE DEF q
    <3> QED BY <2>1, <3>1, <3>2, Renamed
  <2>3. sess'[t] \in {q, [q EXCEPT !.to = name]} /\ (q.to # from => sess'[t] = q)
    BY <1>1, <1>3
  <2> QED BY <2>1, <2>2, <2>3
<1>4. \A t \in Sessions : Sound(sess'[t])
  BY <1>2, <1>3
<1>5. sess' \in [Sessions -> Session]
  BY <1>1, <1>4 DEF Sound
<1> QED BY <1>2, <1>4, <1>5

LEMMA SameSound ==
  ASSUME Sessionwise, sess' = sess
  PROVE  Sessionwise'
BY DEF Sessionwise, Sound

LEMMA EndsSound ==
  ASSUME Sessionwise, NEW s \in Sessions, Ends(s)
  PROVE  Sessionwise'
BY FreeSound, OneSound DEF Ends

LEMMA PutsSound ==
  ASSUME Sessionwise, NEW s \in Sessions, NEW r, Sound(r), Puts(s, r)
  PROVE  Sessionwise' /\ sess'[s] = r
<1>1. CASE ChangesOnly(s, r)
  BY <1>1, ChangesSound DEF ChangesOnly
<1>2. CASE sess' = [sess EXCEPT ![s] = r]
  BY <1>2, OneSound DEF Sessionwise
<1> QED BY <1>1, <1>2 DEF Puts

LEMMA CutSound ==
  ASSUME NEW r, Sound(r)
  PROVE  Sound(Cut(r))
BY FreeSound DEF Cut, Sound, Session, Points

LEMMA GoneSound ==
  ASSUME NEW r, Sound(r)
  PROVE  Sound([r EXCEPT !.gone = TRUE])
BY DEF Sound, Session

LEMMA DiscardSound ==
  ASSUME NEW r, Sound(r), NEW to \in {"none", "part", "dest", "orphan"},
         to \in {r.to, "orphan"}, r.to = "none" => to = "none"
  PROVE  Sound([r EXCEPT !.alone = FALSE, !.to = to])
BY DEF Sound, Session

\* Every step, one by one, keeps what a session knows of itself.
LEMMA SessionwiseStep ==
  ASSUME Sessionwise, meta \in Files \cup {NoFile}, SizeOf(part) \in Nat, [Next]_vars
  PROVE  Sessionwise'
<1> USE DEF Sessionwise, Sound, Session, Points, Asking, BeforeBody, AfterBody
<1>1. ASSUME NEW s \in Sessions, Start(s) PROVE Sessionwise'
  <2>1. PICK f \in Files : sess' = [sess EXCEPT ![s] = [Free EXCEPT !.pc = "size", !.file = f]]
    BY <1>1 DEF Start
  <2>2. Free \in Session /\ Free.off = 0
    BY FreeSound DEF Free
  <2>3. [Free EXCEPT !.pc = "size", !.file = f] = [Free EXCEPT !.pc = "size", !.file = f, !.off = 0]
    BY <2>2, Zenon DEF Session
  <2>4. Sound([Free EXCEPT !.pc = "size", !.file = f])
    <3>1. Size[f] \in Nat /\ 0 \in 0..Size[f] /\ "size" \in {"size", "have"}
      OBVIOUS
    <3> HIDE DEF Sound
    <3>2. Sound([Free EXCEPT !.pc = "size", !.file = f, !.off = 0])
      BY <3>1, NewSound
    <3> QED BY <2>3, <3>2
  <2> QED BY <2>1, <2>4, OneSound
<1>2. ASSUME NEW s \in Sessions, AskSize(s) PROVE Sessionwise'
  BY <1>2 DEF AskSize, Goes
<1>3. ASSUME NEW s \in Sessions, AskMeta(s) PROVE Sessionwise'
  <2>1. PICK id \in Files \cup {NoFile} :
               sess' = [sess EXCEPT ![s].pc = "ask", ![s].mark = id]
    BY <1>3 DEF AskMeta
  <2> DEFINE r == [sess[s] EXCEPT !.pc = "ask", !.mark = id]
  <2>2. sess[s].pc = "meta" /\ Sound(sess[s]) /\ "ask" \in Points
    BY <1>3 DEF AskMeta
  <2>3. /\ r \in Session /\ r.pc = "ask" /\ r.file = sess[s].file
        /\ r.off = sess[s].off /\ r.to = sess[s].to
    BY <2>2, Zenon DEF Sound, Session
  <2>4. sess' = [sess EXCEPT ![s] = r]
    BY <2>1
  <2> HIDE DEF r
  <2>5. Sound(r)
    BY <2>2, <2>3
  <2> HIDE DEF Sound, Sessionwise
  <2> QED BY <2>4, <2>5, OneSound
<1>4. ASSUME NEW s \in Sessions, Choose(s) PROVE Sessionwise'
  <2>1. sess[s].file \in Files /\ sess[s].seen \in Nat
    BY <1>4 DEF Choose
  <2>2. PICK n \in {0} \cup {m \in {sess[s].seen} : Resumable(s)} :
          sess' = [sess EXCEPT ![s] = [Free EXCEPT !.pc = "have", !.file = sess[s].file,
                                                   !.off = n]]
    BY <1>4 DEF Choose
  <2>3. n \in 0..Size[sess[s].file]
    BY <2>1, <2>2 DEF Resumable
  <2> HIDE DEF Sound
  <2>4. Sound([Free EXCEPT !.pc = "have", !.file = sess[s].file, !.off = n])
    BY <2>1, <2>3, NewSound
  <2> QED BY <2>2, <2>4, OneSound
<1>5. ASSUME NEW s \in Sessions, HaveSize(s) PROVE Sessionwise'
  <2> DEFINE r == [sess[s] EXCEPT !.pc = "stored", !.seen = SizeOf(part), !.alone = TRUE]
  <2>1. sess' = [sess EXCEPT ![s] = r]
    BY <1>5 DEF HaveSize
  <2>2. sess[s].pc = "have" /\ Sound(sess[s]) /\ "stored" \in Points
    BY <1>5 DEF HaveSize
  <2>3. /\ r \in Session /\ r.pc = "stored" /\ r.file = sess[s].file
        /\ r.off = sess[s].off /\ r.to = sess[s].to
    BY <2>2, Zenon DEF Sound, Session
  <2> HIDE DEF r
  <2>4. Sound(r)
    BY <2>2, <2>3
  <2> HIDE DEF Sound, Sessionwise
  <2> QED BY <2>1, <2>4, OneSound
<1>6. ASSUME NEW s \in Sessions, Check(s) PROVE Sessionwise'
  BY <1>6, EndsSound DEF Check, Goes
<1>7. ASSUME NEW s \in Sessions, UnlinkPart(s) PROVE Sessionwise'
  <2> DEFINE r == [sess[s] EXCEPT !.pc = "unmeta"]
  <2>1. Sound(r) /\ r.to = "none" /\ Changes(s, r, "part", "orphan")
    BY <1>7 DEF UnlinkPart
  <2> HIDE DEF r, Sound
  <2> QED BY <2>1, ChangesSound
<1>8. ASSUME NEW s \in Sessions, UnlinkMeta(s) PROVE Sessionwise'
  BY <1>8, ChangesSound DEF UnlinkMeta, ChangesOnly
<1>9. ASSUME NEW s \in Sessions, WriteMeta(s) PROVE Sessionwise'
  BY <1>9, ChangesSound DEF WriteMeta, ChangesOnly
<1>10. ASSUME NEW s \in Sessions, Open(s) PROVE Sessionwise'
  <2> DEFINE r(w) == [sess[s] EXCEPT !.pc = "write", !.way = w, !.to = "part",
                                     !.at = sess[s].off + 1, !.off = 0, !.seen = 0]
  <2>1. \/ Ends(s)
        \/ \E w \in {"cat", "append", "sftp"} : ChangesOnly(s, r(w))
    BY <1>10 DEF Open
  <2>2. ASSUME NEW w \in {"cat", "append", "sftp"} PROVE Sound(r(w))
    <3>1. sess[s].pc = "open" /\ Sound(sess[s])
      BY <1>10 DEF Open
    <3>2. /\ sess[s].off + 1 \in Nat \ {0} /\ 0 \in Nat /\ "write" \in Points
          /\ "part" \in {"none", "part", "dest", "orphan"}
      OBVIOUS
    <3>3. r(w) \in Session
      BY <3>1, <3>2, Zenon DEF Session, Sound
    <3>4. /\ r(w).pc = "write" /\ r(w).file = sess[s].file /\ r(w).off = 0
          /\ r(w).to = "part" /\ r(w).at = sess[s].off + 1
      BY <3>1, <3>2, Zenon DEF Session, Sound
    <3> HIDE DEF r
    <3> QED BY <3>1, <3>3, <3>4 DEF Sound
  <2> HIDE DEF r
  <2>3. ASSUME NEW w \in {"cat", "append", "sftp"}, ChangesOnly(s, r(w)) PROVE Sessionwise'
    <3>1. Sound(r(w)) /\ Changes(s, r(w), "none", "none")
      BY <2>2, <2>3 DEF ChangesOnly
    <3> HIDE DEF Sound, Sessionwise
    <3> QED BY <3>1, ChangesSound
  <2> QED BY <2>1, <2>3, EndsSound
<1>11. ASSUME NEW s \in Sessions, WriteChunk(s) PROVE Sessionwise'
  BY <1>11, PutsSound DEF WriteChunk
<1>12. ASSUME NEW s \in Sessions, CloseFile(s) PROVE Sessionwise'
  <2> DEFINE r == [sess[s] EXCEPT !.pc = "stat", !.to = "none", !.at = 1, !.way = "cat"]
  <2>1. /\ sess' = [sess EXCEPT ![s] = r] /\ Sound(sess[s]) /\ sess[s].pc = "write"
        /\ "stat" \in Points /\ 1 \in Nat \ {0}
    BY <1>12 DEF CloseFile
  <2>2. /\ r \in Session /\ r.pc = "stat" /\ r.file = sess[s].file
        /\ r.off = sess[s].off /\ r.to = "none"
    BY <2>1, Zenon DEF Sound, Session
  <2> HIDE DEF r
  <2>3. Sound(r)
    BY <2>1, <2>2
  <2> HIDE DEF Sound, Sessionwise
  <2> QED BY <2>1, <2>3, OneSound
<1>13. ASSUME NEW s \in Sessions, Skip(s) PROVE Sessionwise'
  <2> DEFINE r == [sess[s] EXCEPT !.pc = "stat"]
  <2>1. /\ sess' = [sess EXCEPT ![s] = r] /\ Sound(sess[s]) /\ sess[s].pc = "skip"
        /\ "stat" \in Points
    BY <1>13 DEF Skip, Goes
  <2>2. /\ r \in Session /\ r.pc = "stat" /\ r.file = sess[s].file
        /\ r.off = sess[s].off /\ r.to = sess[s].to
    BY <2>1, Zenon DEF Sound, Session
  <2> HIDE DEF r
  <2>3. Sound(r)
    BY <2>1, <2>2
  <2> HIDE DEF Sound, Sessionwise
  <2> QED BY <2>1, <2>3, OneSound
<1>14. ASSUME NEW s \in Sessions, Hang(s) PROVE Sessionwise'
  BY <1>14, EndsSound DEF Hang
<1>15. ASSUME NEW s \in Sessions, StatPart(s) PROVE Sessionwise'
  BY <1>15, EndsSound DEF StatPart, Goes
<1>16. ASSUME NEW s \in Sessions, UnlinkDest(s) PROVE Sessionwise'
  BY <1>16 DEF UnlinkDest
<1>17. ASSUME NEW s \in Sessions, Rename(s) PROVE Sessionwise'
  BY <1>17, EndsSound, ChangesSound DEF Rename
<1>18. ASSUME NEW s \in Sessions, CleanMeta(s) PROVE Sessionwise'
  BY <1>18, FreeSound, ChangesSound DEF CleanMeta, ChangesOnly
<1>19. ASSUME NEW s \in Sessions, Die(s) PROVE Sessionwise'
  BY <1>19, FreeSound, PutsSound, OneSound DEF Die
<1>20. ASSUME NEW s \in Sessions, Cancel(s) PROVE Sessionwise'
  <2>1. Sound([sess[s] EXCEPT !.gone = TRUE])
    BY GoneSound
  <2>2. Sound(Cut(sess[s]))
    BY CutSound
  <2>3. \E r \in {[sess[s] EXCEPT !.gone = TRUE], Cut(sess[s])} : sess' = [sess EXCEPT ![s] = r]
    BY <1>20, Zenon DEF Cancel
  <2> HIDE DEF Sound
  <2> QED BY <2>1, <2>2, <2>3, OneSound
<1>21. ASSUME NEW s \in Sessions, Lose(s) PROVE Sessionwise'
  BY <1>21, CutSound, OneSound DEF Lose
<1>22. ASSUME NEW s \in Sessions, Refuse(s) PROVE Sessionwise'
  BY <1>22 DEF Refuse
<1>23. ASSUME Crash PROVE Sessionwise'
  BY <1>23, CutSound DEF Crash
<1>24. ASSUME Discard PROVE Sessionwise'
  <2> DEFINE to(t) == IF sess[t].to = "part" THEN "orphan" ELSE sess[t].to
             r(t) == [sess[t] EXCEPT !.alone = FALSE, !.to = to(t)]
  <2>1. sess' = [t \in Sessions |-> r(t)]
    BY <1>24 DEF Discard
  <2>2. ASSUME NEW t \in Sessions PROVE Sound(r(t))
    <3>1. Sound(sess[t]) /\ to(t) \in {"none", "part", "dest", "orphan"}
      OBVIOUS
    <3>2. to(t) \in {sess[t].to, "orphan"} /\ (sess[t].to = "none" => to(t) = "none")
      OBVIOUS
    <3> HIDE DEF to, Sound
    <3> QED BY <3>1, <3>2, DiscardSound
  <2>3. \A t \in Sessions : r(t) \in Session
    BY <2>2
  <2> HIDE DEF r
  <2> QED BY <2>1, <2>2, <2>3
<1>25. CASE UNCHANGED vars
  <2> HIDE DEF Sound, Sessionwise
  <2>1. sess' = sess
    BY <1>25 DEF vars
  <2> QED BY <2>1, SameSound
<1> HIDE DEF Sessionwise, Sound, Session, Points, Asking, BeforeBody, AfterBody
<1> QED BY <1>1, <1>2, <1>3, <1>4, <1>5, <1>6, <1>7, <1>8, <1>9, <1>10, <1>11,
       <1>12, <1>13, <1>14, <1>15, <1>16, <1>17, <1>18, <1>19, <1>20, <1>21,
       <1>22, <1>23, <1>24, <1>25 DEF Next, Step

(******************************* Types *************************************)

LEMMA PrefixType ==
  ASSUME NEW f \in Files, NEW n \in Nat
  PROVE  Prefix(f, n) \in Seq(Chunks)
BY DEF Prefix, Chunks

LEMMA SizeType == Typed => SizeOf(part) \in Nat
BY DEF Typed, SizeOf

LEMMA WrittenType ==
  ASSUME NEW s \in Sessions, sess[s] \in Session, sess[s].file \in Files,
         NEW q \in Seq(Chunks)
  PROVE  Written(s, q) \in Seq(Chunks)
<1> DEFINE n == IF sess[s].way = "append" THEN Len(q) + 1 ELSE sess[s].at
           m == IF n > Len(q) THEN n ELSE Len(q)
           e(i) == IF i = n THEN <<sess[s].file, sess[s].at>>
                   ELSE IF i <= Len(q) THEN q[i] ELSE Hole
<1>1. Written(s, q) = [i \in 1..m |-> e(i)]
  BY DEF Written
<1>2. m \in Nat
  BY DEF Session
<1>3. \A i \in 1..m : e(i) \in Chunks
  <2>1. <<sess[s].file, sess[s].at>> \in Chunks /\ Hole \in Chunks
    BY DEF Session, Chunks
  <2>2. \A i \in 1..m : i <= Len(q) => q[i] \in Chunks
    OBVIOUS
  <2> QED BY <2>1, <2>2
<1> HIDE DEF m, e
<1> QED BY <1>1, <1>2, <1>3

\* The other sessions after a change of the part or .meta by session s.
LEMMA ChangesOthers ==
  ASSUME Sessionwise, NEW s \in Sessions, NEW r,
         NEW from \in {"none", "part"}, NEW name \in {"none", "dest", "orphan"},
         Changes(s, r, from, name)
  PROVE  \A t \in Sessions : t # s =>
           /\ sess'[t].alone = FALSE
           /\ sess'[t].to = IF sess[t].to = from THEN name ELSE sess[t].to
<1> SUFFICES ASSUME NEW t \in Sessions, t # s
             PROVE  /\ sess'[t].alone = FALSE
                    /\ sess'[t].to = IF sess[t].to = from THEN name ELSE sess[t].to
  OBVIOUS
<1> DEFINE q == [sess[t] EXCEPT !.alone = FALSE]
<1>1. sess'[t] = IF q.to = from THEN [q EXCEPT !.to = name] ELSE q
  BY DEF Changes
<1>2. /\ q.to = sess[t].to /\ q.alone = FALSE
      /\ [q EXCEPT !.to = name].to = name /\ [q EXCEPT !.to = name].alone = FALSE
  BY DEF Sessionwise, Session
<1> HIDE DEF q
<1> QED BY <1>1, <1>2

LEMMA PutsType ==
  ASSUME Sessionwise, Typed, NEW s \in Sessions, NEW r, Sound(r), Puts(s, r), UNCHANGED meta,
         sess[s].file \in Files, r.to \in {sess[s].to, "none"}
  PROVE  Typed'
<1> USE DEF Typed
<1>1. sess'[s] = r /\ \A t \in Sessions : t # s => sess'[t].to \in {sess[t].to, "none"}
  <2>1. sess'[s] = r
    BY PutsSound
  <2>2. CASE ChangesOnly(s, r)
    <3>1. \A t \in Sessions : t # s =>
            sess'[t].to = IF sess[t].to = "none" THEN "none" ELSE sess[t].to
      BY <2>2, ChangesOthers DEF ChangesOnly
    <3> QED BY <2>1, <3>1
  <2>3. CASE sess' = [sess EXCEPT ![s] = r]
    BY <2>1, <2>3 DEF Sessionwise
  <2> QED BY <2>2, <2>3 DEF Puts
<1>2. sess[s].to = "part" => part' \in Seq(Chunks) /\ dest' = dest
  BY WrittenType DEF Puts, Sessionwise
<1>3. sess[s].to = "dest" => dest' \in Seq(Chunks) /\ part' = part
  BY WrittenType DEF Puts, Sessionwise
<1>4. sess[s].to \notin {"part", "dest"} => dest' = dest /\ part' = part
  BY DEF Puts
<1> QED BY <1>1, <1>2, <1>3, <1>4

\* Steps that touch no file and close or keep those that are open.
LEMMA GuestType ==
  ASSUME Typed, UNCHANGED Guest,
         \A t \in Sessions : sess'[t].to \in {sess[t].to, "none", "orphan"}
  PROVE  Typed'
BY DEF Typed, Guest

\* What a change of the part or .meta by s, now r, does to the open files.
LEMMA ChangesTo ==
  ASSUME Sessionwise, NEW s \in Sessions, NEW r, Sound(r),
         NEW from \in {"none", "part"}, r.to # "none" => r.to # from,
         NEW name \in {"none", "dest", "orphan"}, from = "none" <=> name = "none",
         Changes(s, r, from, name)
  PROVE  \A t \in Sessions :
           sess'[t].to = IF t = s THEN r.to
                         ELSE IF sess[t].to = from THEN name ELSE sess[t].to
<1>1. sess'[s] = r
  BY ChangesSound
<1>2. ASSUME NEW t \in Sessions, t # s
      PROVE  sess'[t].to = IF sess[t].to = from THEN name ELSE sess[t].to
  <2> DEFINE q == [sess[t] EXCEPT !.alone = FALSE]
  <2>1. sess'[t] = IF q.to = from THEN [q EXCEPT !.to = name] ELSE q
    BY <1>2 DEF Changes
  <2>2. q.to = sess[t].to /\ [q EXCEPT !.to = name].to = name
    BY DEF Sessionwise, Session
  <2> HIDE DEF q
  <2> QED BY <2>1, <2>2
<1>3. ASSUME NEW t \in Sessions
      PROVE  sess'[t].to = IF t = s THEN r.to
                           ELSE IF sess[t].to = from THEN name ELSE sess[t].to
  <2>1. CASE t = s
    BY <1>1, <2>1
  <2>2. CASE t # s
    BY <1>2, <2>2
  <2> QED BY <2>1, <2>2
<1> QED BY <1>3, Zenon

\* Every step, one by one, keeps the types of the files.
LEMMA TypedStep ==
  ASSUME Sessionwise, Typed, [Next]_vars
  PROVE  Typed'
<1> USE DEF Asking, BeforeBody, AfterBody
<1>1. ASSUME NEW s \in Sessions,
             Start(s) \/ AskSize(s) \/ AskMeta(s) \/ Choose(s) \/ HaveSize(s) \/ Check(s)
      PROVE  Typed'
  <2>1. UNCHANGED Guest
    BY <1>1 DEF Start, AskSize, AskMeta, Choose, HaveSize, Check
  <2>2. CASE Start(s) \/ Choose(s)
    <3>1. \A t \in Sessions : sess'[t].to \in {sess[t].to, "none"}
      <4>1. PICK f, n, pc : sess' \in {[sess EXCEPT ![s] = [Free EXCEPT !.pc = pc, !.file = f]],
              [sess EXCEPT ![s] = [Free EXCEPT !.pc = pc, !.file = f, !.off = n]]}
        BY <2>2 DEF Start, Choose
      <4>2. /\ [Free EXCEPT !.pc = pc, !.file = f].to = "none"
            /\ [Free EXCEPT !.pc = pc, !.file = f, !.off = n].to = "none"
        BY DEF Free
      <4> QED BY <4>1, <4>2 DEF Sessionwise
    <3> QED BY <2>1, <3>1, GuestType
  <2>3. CASE AskSize(s) \/ AskMeta(s) \/ HaveSize(s)
    <3>1. \A t \in Sessions : sess'[t].to \in {sess[t].to, "none"}
      BY <2>3 DEF AskSize, AskMeta, HaveSize, Goes, Sessionwise, Session
    <3> QED BY <2>1, <3>1, GuestType
  <2>4. CASE Check(s)
    <3>1. \A t \in Sessions : sess'[t].to \in {sess[t].to, "none"}
      BY <2>4 DEF Check, Goes, Ends, Free, Sessionwise, Session
    <3> QED BY <2>1, <3>1, GuestType
  <2> QED BY <1>1, <2>2, <2>3, <2>4
<1>2. ASSUME NEW s \in Sessions,
             CloseFile(s) \/ Skip(s) \/ Hang(s) \/ StatPart(s)
      PROVE  Typed'
  <2>1. UNCHANGED Guest
    BY <1>2 DEF CloseFile, Skip, Hang, StatPart
  <2>2. \A t \in Sessions : sess'[t].to \in {sess[t].to, "none"}
    BY <1>2 DEF CloseFile, Skip, Hang, StatPart, Goes, Ends, Free, Sessionwise, Session
  <2> QED BY <2>1, <2>2, GuestType
<1>3. ASSUME NEW s \in Sessions, Cancel(s) \/ Lose(s) \/ Refuse(s) PROVE Typed'
  <2>1. UNCHANGED Guest
    BY <1>3 DEF Cancel, Lose, Refuse
  <2>2. \A t \in Sessions : sess'[t].to \in {sess[t].to, "none"}
    <3>1. Cut(sess[s]).to \in {sess[s].to, "none"}
      BY DEF Cut, Free, Sessionwise, Session
    <3>2. CASE Lose(s)
      BY <3>1, <3>2 DEF Lose, Sessionwise
    <3>3. CASE Refuse(s)
      BY <3>3 DEF Refuse, Sessionwise, Session
    <3>4. CASE Cancel(s)
      <4>1. \E q \in {[sess[s] EXCEPT !.gone = TRUE], Cut(sess[s])} :
              sess' = [sess EXCEPT ![s] = q]
        BY <3>4, Zenon DEF Cancel
      <4>2. [sess[s] EXCEPT !.gone = TRUE].to = sess[s].to
        BY DEF Sessionwise, Session
      <4> QED BY <3>1, <4>1, <4>2 DEF Sessionwise
    <3> QED BY <1>3, <3>2, <3>3, <3>4
  <2> QED BY <2>1, <2>2, GuestType
<1>4. ASSUME Crash PROVE Typed'
  <2>1. UNCHANGED Guest
    BY <1>4 DEF Crash
  <2>2. \A t \in Sessions : sess'[t].to \in {sess[t].to, "none"}
    BY <1>4 DEF Crash, Cut, Free, Sessionwise, Session
  <2> QED BY <2>1, <2>2, GuestType
<1>5. ASSUME NEW s \in Sessions, UnlinkPart(s) PROVE Typed'
  <2> DEFINE r == [sess[s] EXCEPT !.pc = "unmeta"]
  <2>1. Sound(r) /\ r.to = "none" /\ Changes(s, r, "part", "orphan")
    BY <1>5 DEF UnlinkPart, Sessionwise, Sound, Session, Points
  <2> HIDE DEF r
  <2>2. \A t \in Sessions : sess'[t].to = IF t = s THEN r.to
                            ELSE IF sess[t].to = "part" THEN "orphan" ELSE sess[t].to
    BY <2>1, ChangesTo
  <2> QED BY <1>5, <2>1, <2>2 DEF UnlinkPart, Typed
<1>6. ASSUME NEW s \in Sessions, UnlinkMeta(s) PROVE Typed'
  <2> DEFINE r == [sess[s] EXCEPT !.pc = "name"]
  <2>1. Sound(r) /\ r.to = "none" /\ Changes(s, r, "none", "none")
    BY <1>6 DEF UnlinkMeta, ChangesOnly, Sessionwise, Sound, Session, Points
  <2> HIDE DEF r
  <2>2. \A t \in Sessions : sess'[t].to = IF t = s THEN r.to
                            ELSE IF sess[t].to = "none" THEN "none" ELSE sess[t].to
    BY <2>1, ChangesTo
  <2> QED BY <1>6, <2>1, <2>2 DEF UnlinkMeta, Typed
<1>7. ASSUME NEW s \in Sessions, WriteMeta(s) PROVE Typed'
  <2> DEFINE r == [sess[s] EXCEPT !.pc = "open"]
  <2>1. Sound(r) /\ r.to = "none" /\ Changes(s, r, "none", "none")
    BY <1>7 DEF WriteMeta, ChangesOnly, Sessionwise, Sound, Session, Points
  <2> HIDE DEF r
  <2>2. \A t \in Sessions : sess'[t].to = IF t = s THEN r.to
                            ELSE IF sess[t].to = "none" THEN "none" ELSE sess[t].to
    BY <2>1, ChangesTo
  <2>3. sess[s].file \in Files
    BY <1>7 DEF WriteMeta, Sessionwise, Sound
  <2> QED BY <1>7, <2>1, <2>2, <2>3 DEF WriteMeta, Typed
<1>8. ASSUME NEW s \in Sessions, CleanMeta(s) PROVE Typed'
  <2>1. Changes(s, Free, "none", "none") /\ Free.to = "none"
    BY <1>8 DEF CleanMeta, ChangesOnly, Free
  <2>2. \A t \in Sessions : sess'[t].to = IF t = s THEN Free.to
                            ELSE IF sess[t].to = "none" THEN "none" ELSE sess[t].to
    BY <2>1, FreeSound, ChangesTo
  <2> QED BY <1>8, <2>1, <2>2 DEF CleanMeta, Typed
<1>9. ASSUME NEW s \in Sessions, Rename(s) PROVE Typed'
  <2> DEFINE r == [sess[s] EXCEPT !.pc = "clean"]
  <2>1. CASE Ends(s) /\ UNCHANGED <<dest, part>>
    <3>1. \A t \in Sessions : sess'[t].to \in {sess[t].to, "none"}
      BY <2>1 DEF Ends, Free, Sessionwise
    <3>2. UNCHANGED Guest
      BY <1>9, <2>1 DEF Rename, Guest
    <3> QED BY <3>1, <3>2, GuestType
  <2>2. CASE /\ part # Absent /\ dest' = part /\ part' = Absent
             /\ Changes(s, r, "part", "dest")
    <3>1. Sound(r) /\ r.to = "none"
      BY <1>9 DEF Rename, Sessionwise, Sound, Session, Points
    <3> HIDE DEF r
    <3>2. \A t \in Sessions : sess'[t].to = IF t = s THEN r.to
                              ELSE IF sess[t].to = "part" THEN "dest" ELSE sess[t].to
      BY <2>2, <3>1, ChangesTo
    <3>3. part \in Seq(Chunks) /\ meta' = meta
      BY <1>9, <2>2 DEF Typed, Rename
    <3> QED BY <2>2, <3>1, <3>2, <3>3 DEF Typed
  <2> QED BY <1>9, <2>1, <2>2 DEF Rename
<1>10. ASSUME NEW s \in Sessions, UnlinkDest(s) PROVE Typed'
  <2>1. \A t \in Sessions : sess'[t].to \in {sess[t].to, "orphan"} /\ sess'[t].to # "dest"
    BY <1>10 DEF UnlinkDest, Sessionwise, Sound, Session
  <2> QED BY <1>10, <2>1 DEF UnlinkDest, Typed
<1>11. ASSUME NEW s \in Sessions, WriteChunk(s) PROVE Typed'
  <2> DEFINE r == [sess[s] EXCEPT !.at = @ + 1]
  <2>1. /\ Sound(r) /\ r.to = sess[s].to /\ Puts(s, r) /\ sess[s].file \in Files
        /\ meta' = meta
    BY <1>11 DEF WriteChunk, Sessionwise, Sound, Session
  <2> HIDE DEF r
  <2> QED BY <2>1, PutsType
<1>12. ASSUME NEW s \in Sessions, Die(s) PROVE Typed'
  <2>1. Free.to = "none" /\ sess[s].file \in Files /\ meta' = meta
    BY <1>12 DEF Die, Free, Sessionwise, Sound
  <2>2. CASE Puts(s, Free)
    BY <2>1, <2>2, FreeSound, PutsType
  <2>3. CASE sess' = [sess EXCEPT ![s] = Free] /\ UNCHANGED <<part, dest>>
    BY <2>1, <2>3, GuestType DEF Sessionwise, Guest
  <2> QED BY <1>12, <2>2, <2>3 DEF Die
<1>13. ASSUME NEW s \in Sessions, Open(s) PROVE Typed'
  <2> DEFINE r(w) == [sess[s] EXCEPT !.pc = "write", !.way = w, !.to = "part",
                                     !.at = sess[s].off + 1, !.off = 0, !.seen = 0]
  <2>1. CASE Ends(s) /\ UNCHANGED part
    BY <1>13, <2>1, GuestType DEF Open, Ends, Free, Sessionwise, Guest
  <2>2. ASSUME NEW w \in {"cat", "append", "sftp"}, ChangesOnly(s, r(w)),
               part' \in Seq(Chunks)
        PROVE  Typed'
    <3>1. sess[s] \in Session
      BY DEF Sessionwise
    <3>2. \A t \in Sessions : t # s =>
            sess'[t].to = IF sess[t].to = "none" THEN "none" ELSE sess[t].to
      BY <2>2, ChangesOthers DEF ChangesOnly
    <3>4. dest' = dest /\ meta' = meta /\ sess[s].to = "none"
      BY <1>13 DEF Open, Sessionwise, Sound
    <3>5. r(w).to = "part"
      BY <3>1, Zenon DEF Session
    <3>6. sess'[s].to = "part"
      <4> HIDE DEF r
      <4> QED BY <2>2, <3>5 DEF ChangesOnly, Changes
    <3> QED BY <2>2, <3>2, <3>4, <3>6 DEF Typed
  <2>3. \/ Ends(s) /\ UNCHANGED part
        \/ \E w \in {"cat", "append", "sftp"} :
             part' \in Seq(Chunks) /\ ChangesOnly(s, r(w))
    <3>1. PICK way \in {"cat", "sftp"} :
            LET w == IF way = "cat" /\ sess[s].off > 0 THEN "append" ELSE way
            IN \/ Ends(s) /\ UNCHANGED part
               \/ /\ part' = IF sess[s].off = 0 \/ part = Absent THEN <<>> ELSE part
                  /\ ChangesOnly(s, r(w))
      BY <1>13, Zenon DEF Open
    <3> HIDE DEF r
    <3>2. <<>> \in Seq(Chunks) /\ (part # Absent => part \in Seq(Chunks))
      BY DEF Typed
    <3> QED BY <3>1, <3>2
  <2> HIDE DEF r
  <2> QED BY <2>1, <2>2, <2>3
<1>14. ASSUME Discard PROVE Typed'
  <2>1. \A t \in Sessions : sess'[t].to \in {sess[t].to, "orphan"} /\ sess'[t].to # "part"
    BY <1>14 DEF Discard, Sessionwise, Session
  <2> QED BY <1>14, <2>1 DEF Discard, Typed
<1>15. CASE UNCHANGED vars
  BY <1>15, GuestType DEF vars, Guest
<1> QED BY <1>1, <1>2, <1>3, <1>4, <1>5, <1>6, <1>7, <1>8, <1>9, <1>10, <1>11,
       <1>12, <1>13, <1>14, <1>15 DEF Next, Step

(************************* What sessions find ******************************)

\* A step that changes session s alone, and no file.
LEMMA QuietStep ==
  ASSUME Sessionwise, Unspoiled, NEW s \in Sessions, NEW r,
         sess' = [sess EXCEPT ![s] = r], UNCHANGED Guest, spoiled => spoiled',
         ~spoiled' /\ r.alone => Finds(r, part, meta, dest)
  PROVE  Unspoiled'
<1> SUFFICES ASSUME ~spoiled'
             PROVE  /\ MetaTrue(meta', part')
                    /\ \A t \in Sessions : sess'[t].alone => Finds(sess'[t], part', meta', dest')
  BY DEF Unspoiled
<1>1. part' = part /\ meta' = meta /\ dest' = dest
  BY DEF Guest
<1>2. /\ MetaTrue(meta, part)
      /\ \A t \in Sessions : sess[t].alone => Finds(sess[t], part, meta, dest)
  BY DEF Unspoiled
<1>3. \A t \in Sessions : sess'[t] = IF t = s THEN r ELSE sess[t]
  BY DEF Sessionwise
<1> QED BY <1>1, <1>2, <1>3

\* A session that ends finds nothing.
LEMMA EndsStep ==
  ASSUME Sessionwise, Unspoiled, NEW s \in Sessions, sess' = [sess EXCEPT ![s] = Free],
         UNCHANGED Guest, spoiled => spoiled'
  PROVE  Unspoiled'
<1>1. Finds(Free, part, meta, dest)
  BY DEF Free, Finds
<1> QED BY <1>1, QuietStep

\* A step of s, then r, that changes the part or .meta, or moves open files.
LEMMA ChangesStep ==
  ASSUME Sessionwise, NEW s \in Sessions, NEW r, Sound(r),
         NEW from \in {"none", "part"}, r.to # "none" => r.to # from,
         NEW name \in {"none", "dest", "orphan"}, from = "none" <=> name = "none",
         Changes(s, r, from, name),
         ~spoiled' => MetaTrue(meta', part') /\ Finds(r, part', meta', dest')
  PROVE  Unspoiled'
<1>1. sess'[s] = r
  BY ChangesSound
<1>2. ASSUME NEW t \in Sessions, t # s
      PROVE  sess'[t].alone = FALSE
  <2> DEFINE q == [sess[t] EXCEPT !.alone = FALSE]
  <2>1. sess'[t] = IF q.to = from THEN [q EXCEPT !.to = name] ELSE q
    BY <1>2 DEF Changes
  <2>2. q.alone = FALSE /\ [q EXCEPT !.to = name].alone = FALSE
    BY DEF Sessionwise, Session
  <2> HIDE DEF q
  <2> QED BY <2>1, <2>2
<1>3. \A t \in Sessions : sess'[t].alone => t = s
  BY <1>2
<1> QED BY <1>1, <1>3 DEF Unspoiled

\* Whoever is alone before such a step finds what it should.
LEMMA AloneFinds ==
  ASSUME Unspoiled, NEW s \in Sessions, spoiled' = (spoiled \/ ~sess[s].alone), ~spoiled'
  PROVE  MetaTrue(meta, part) /\ Finds(sess[s], part, meta, dest)
BY DEF Unspoiled

\* The fields that Finds looks at after a session only moved on to pc.
LEMMA MovedFields ==
  ASSUME NEW r \in Session, NEW pc
  PROVE  /\ [r EXCEPT !.pc = pc].pc = pc /\ [r EXCEPT !.pc = pc].file = r.file
         /\ [r EXCEPT !.pc = pc].off = r.off /\ [r EXCEPT !.pc = pc].seen = r.seen
         /\ [r EXCEPT !.pc = pc].to = r.to /\ [r EXCEPT !.pc = pc].at = r.at
         /\ [r EXCEPT !.pc = pc].alone = r.alone
BY Zenon DEF Session

\* A session that is cut off finds what it found before.
LEMMA CutFinds ==
  ASSUME NEW r \in Session, Cut(r).alone,
         r.alone => Finds(r, part, meta, dest)
  PROVE  Finds(Cut(r), part, meta, dest)
<1>1. CASE r.pc \in {"write", "dying"}
  <2> DEFINE q == [r EXCEPT !.pc = "dying"]
  <2>1. /\ q.pc = "dying" /\ q.file = r.file /\ q.to = r.to /\ q.at = r.at
        /\ q.alone = r.alone
    BY MovedFields
  <2>2. Cut(r) = q
    BY <1>1 DEF Cut
  <2> HIDE DEF q
  <2> QED BY <1>1, <2>1, <2>2 DEF Finds
<1>2. CASE r.pc \notin {"write", "dying"}
  BY <1>2 DEF Cut, Free, Finds
<1> QED BY <1>1, <1>2

\* The steps of a session that leave every file as it is.
LEMMA LooksStep ==
  ASSUME Sessionwise, Unspoiled, NEW s \in Sessions,
         \/ Start(s) \/ AskSize(s) \/ AskMeta(s) \/ Choose(s) \/ HaveSize(s)
         \/ Skip(s) \/ Hang(s) \/ StatPart(s)
  PROVE  Unspoiled'
<1>1. sess[s] \in Session
  BY DEF Sessionwise
<1>2. UNCHANGED Guest /\ spoiled' = spoiled
  BY DEF Start, AskSize, AskMeta, Choose, HaveSize, Skip, Hang, StatPart
<1>3. ~spoiled /\ sess[s].alone => Finds(sess[s], part, meta, dest)
  BY DEF Unspoiled
<1>4. CASE Start(s)
  <2>1. PICK f \in Files : sess' = [sess EXCEPT ![s] = [Free EXCEPT !.pc = "size", !.file = f]]
    BY <1>4 DEF Start
  <2>2. [Free EXCEPT !.pc = "size", !.file = f].pc = "size"
    BY DEF Free
  <2>3. Finds([Free EXCEPT !.pc = "size", !.file = f], part, meta, dest)
    BY <2>2 DEF Finds
  <2> QED BY <1>2, <2>1, <2>3, QuietStep
<1>5. CASE AskSize(s)
  <2>1. PICK r : sess' = [sess EXCEPT ![s] = r] /\ r.pc \in {"meta", "ask"}
    <3>1. \/ sess' = [sess EXCEPT ![s] = [sess[s] EXCEPT !.pc = "meta", !.seen = SizeOf(part)]]
          \/ sess' = [sess EXCEPT ![s] = [sess[s] EXCEPT !.pc = "ask"]]
      BY <1>5 DEF AskSize, Goes
    <3>2. /\ [sess[s] EXCEPT !.pc = "meta", !.seen = SizeOf(part)].pc = "meta"
          /\ [sess[s] EXCEPT !.pc = "ask"].pc = "ask"
      BY <1>1, Zenon DEF Session
    <3> QED BY <3>1, <3>2
  <2>2. Finds(r, part, meta, dest)
    BY <2>1 DEF Finds
  <2> QED BY <1>2, <2>1, <2>2, QuietStep
<1>6. CASE AskMeta(s)
  <2>1. PICK id : sess' = [sess EXCEPT ![s] = [sess[s] EXCEPT !.pc = "ask", !.mark = id]]
    BY <1>6 DEF AskMeta
  <2>2. [sess[s] EXCEPT !.pc = "ask", !.mark = id].pc = "ask"
    BY <1>1, Zenon DEF Session
  <2>3. Finds([sess[s] EXCEPT !.pc = "ask", !.mark = id], part, meta, dest)
    BY <2>2 DEF Finds
  <2> QED BY <1>2, <2>1, <2>3, QuietStep
<1>7. CASE Choose(s)
  <2>1. PICK n : sess' = [sess EXCEPT ![s] = [Free EXCEPT !.pc = "have",
                                             !.file = sess[s].file, !.off = n]]
    BY <1>7 DEF Choose
  <2>2. [Free EXCEPT !.pc = "have", !.file = sess[s].file, !.off = n].pc = "have"
    BY DEF Free
  <2>3. Finds([Free EXCEPT !.pc = "have", !.file = sess[s].file, !.off = n], part, meta, dest)
    BY <2>2 DEF Finds
  <2> QED BY <1>2, <2>1, <2>3, QuietStep
<1>8. CASE HaveSize(s)
  <2> DEFINE r == [sess[s] EXCEPT !.pc = "stored", !.seen = SizeOf(part), !.alone = TRUE]
  <2>1. sess' = [sess EXCEPT ![s] = r]
    BY <1>8 DEF HaveSize
  <2>2. r.pc = "stored" /\ r.seen = SizeOf(part)
    BY <1>1, Zenon DEF Session
  <2> HIDE DEF r
  <2>3. Finds(r, part, meta, dest)
    BY <2>2 DEF Finds
  <2> QED BY <1>2, <2>1, <2>3, QuietStep
<1>9. CASE Skip(s) \/ (StatPart(s) /\ Goes(s, "undest"))
  <2>1. PICK pc \in {"stat", "undest"} : sess' = [sess EXCEPT ![s] = [sess[s] EXCEPT !.pc = pc]]
    BY <1>9 DEF Skip, Goes
  <2> DEFINE r == [sess[s] EXCEPT !.pc = pc]
  <2>2. r.pc = pc /\ r.file = sess[s].file /\ r.alone = sess[s].alone
    BY <1>1, MovedFields
  <2>3. sess[s].pc \in {"skip", "stat"}
    BY <1>9 DEF Skip, StatPart
  <2> HIDE DEF r
  <2>4. ~spoiled /\ r.alone => Finds(r, part, meta, dest)
    BY <1>3, <2>2, <2>3 DEF Finds
  <2>5. sess' = [sess EXCEPT ![s] = r]
    BY <2>1 DEF r
  <2> QED BY <1>2, <2>4, <2>5, QuietStep
<1>10. CASE Hang(s) \/ (StatPart(s) /\ Ends(s))
  BY <1>2, <1>10, EndsStep DEF Hang, Ends
<1> QED BY <1>4, <1>5, <1>6, <1>7, <1>8, <1>9, <1>10 DEF StatPart

\* A part that fits is the beginning of the session's file.
LEMMA CheckStep ==
  ASSUME Sessionwise, Unspoiled, NEW s \in Sessions, Check(s)
  PROVE  Unspoiled'
<1>1. /\ sess[s] \in Session /\ sess[s].pc = "stored" /\ sess[s].off \in Nat
      /\ sess[s].file \in Files
  BY DEF Check, Sessionwise, Sound, Session
<1>2. UNCHANGED Guest /\ (spoiled => spoiled')
  <2>1. UNCHANGED Guest
    BY DEF Check
  <2>2. spoiled' = spoiled \/ \E id : spoiled' = (spoiled \/ id = NoFile)
    BY Zenon DEF Check
  <2>3. spoiled => spoiled'
    BY <2>2, Zenon
  <2> QED BY <2>1, <2>3
<1>3. CASE Ends(s)
  BY <1>2, <1>3, EndsStep DEF Ends
<1>4. CASE Goes(s, "unpart")
  <2> DEFINE r == [sess[s] EXCEPT !.pc = "unpart"]
  <2>1. r.pc = "unpart"
    BY <1>1, MovedFields
  <2>2. sess' = [sess EXCEPT ![s] = r]
    BY <1>4 DEF Goes
  <2> HIDE DEF r
  <2>3. Finds(r, part, meta, dest)
    BY <2>1 DEF Finds
  <2> QED BY <1>2, <2>2, <2>3, QuietStep
<1>5. ASSUME NEW id \in {meta, NoFile}, sess[s].off > 0, Fits(s, id),
             Goes(s, IF sess[s].off = Size[sess[s].file] THEN "skip" ELSE "open"),
             spoiled' = (spoiled \/ id = NoFile)
      PROVE  Unspoiled'
  <2> DEFINE pc == IF sess[s].off = Size[sess[s].file] THEN "skip" ELSE "open"
             r == [sess[s] EXCEPT !.pc = pc]
  <2>1. /\ r.pc = pc /\ r.file = sess[s].file /\ r.off = sess[s].off
        /\ r.alone = sess[s].alone
    BY <1>1, MovedFields
  <2>2. ASSUME ~spoiled', sess[s].alone
        PROVE  meta = sess[s].file /\ part = Prefix(sess[s].file, sess[s].off)
    <3>1. ~spoiled /\ id # NoFile
      BY <1>5, <2>2
    <3>2. meta = sess[s].file
      BY <1>1, <1>5, <3>1 DEF Fits
    <3>3. MetaTrue(meta, part) /\ Finds(sess[s], part, meta, dest)
      BY <2>2, <3>1 DEF Unspoiled
    <3>4. SizeOf(part) = sess[s].off
      BY <1>1, <1>5, <3>3 DEF Finds, Fits
    <3>5. part # Absent
      BY <1>5, <3>4 DEF SizeOf
    <3>6. PICK n \in 0..Size[sess[s].file] : part = Prefix(sess[s].file, n)
      BY <1>1, <3>2, <3>3, <3>5 DEF MetaTrue
    <3>7. n = sess[s].off
      BY <1>1, <3>4, <3>6, PrefixLength
    <3> QED BY <3>2, <3>6, <3>7
  <2>3. ASSUME ~spoiled', r.alone
        PROVE  Finds(r, part, meta, dest)
    <3>1. r.pc \in {"skip", "open"} /\ (r.pc = "skip" => r.off = Size[r.file]) /\ r.off # 0
      BY <1>1, <1>5, <2>1
    <3>2. meta = r.file /\ part = Prefix(r.file, r.off)
      BY <2>1, <2>2, <2>3
    <3> HIDE DEF r
    <3> QED BY <3>1, <3>2 DEF Finds, Whole
  <2>4. sess' = [sess EXCEPT ![s] = r]
    BY <1>5 DEF Goes
  <2> HIDE DEF r
  <2> QED BY <1>2, <2>3, <2>4, QuietStep
<1> QED BY <1>3, <1>4, <1>5 DEF Check

\* The whole file is written when the body has ended.
LEMMA CloseStep ==
  ASSUME Sessionwise, Unspoiled, NEW s \in Sessions, CloseFile(s)
  PROVE  Unspoiled'
<1> DEFINE r == [sess[s] EXCEPT !.pc = "stat", !.to = "none", !.at = 1, !.way = "cat"]
<1>1. UNCHANGED Guest /\ spoiled' = spoiled /\ sess' = [sess EXCEPT ![s] = r]
  BY DEF CloseFile
<1>2. sess[s] \in Session
  BY DEF Sessionwise
<1>3. r.pc = "stat" /\ r.file = sess[s].file /\ r.alone = sess[s].alone
  BY <1>2, Zenon DEF Session
<1>4. /\ sess[s].pc = "write" /\ sess[s].file \in Files
      /\ sess[s].at - 1 = Size[sess[s].file]
  <2>1. /\ sess[s].pc = "write" /\ sess[s].file \in Files /\ sess[s].at \in Nat
        /\ sess[s].at > Size[sess[s].file] /\ sess[s].at <= Size[sess[s].file] + 1
    BY DEF CloseFile, Sessionwise, Sound, Session
  <2> QED BY <2>1
<1> HIDE DEF r
<1>5. ASSUME ~spoiled, r.alone PROVE Finds(r, part, meta, dest)
  <2>1. Finds(sess[s], part, meta, dest)
    BY <1>3, <1>5 DEF Unspoiled
  <2>2. part = Prefix(sess[s].file, sess[s].at - 1)
    BY <1>4, <2>1, Zenon DEF Finds
  <2>3. part = Whole(r.file)
    BY <1>3, <1>4, <2>2, Zenon DEF Whole
  <2> QED BY <1>3, <2>3 DEF Finds
<1> QED BY <1>1, <1>5, QuietStep

\* What happens to sessions from outside.
LEMMA EventStep ==
  ASSUME Sessionwise, Unspoiled,
         Crash \/ Discard \/ \E s \in Sessions : Cancel(s) \/ Lose(s) \/ Refuse(s)
  PROVE  Unspoiled'
<1>1. ASSUME NEW s \in Sessions, Cancel(s) \/ Lose(s) PROVE Unspoiled'
  <2>1. sess[s] \in Session /\ UNCHANGED Guest /\ spoiled' = spoiled
    BY <1>1 DEF Sessionwise, Cancel, Lose
  <2>2. ~spoiled /\ sess[s].alone => Finds(sess[s], part, meta, dest)
    BY DEF Unspoiled
  <2>3. CASE sess' = [sess EXCEPT ![s] = Cut(sess[s])]
    BY <2>1, <2>2, <2>3, CutFinds, QuietStep
  <2>4. CASE sess' = [sess EXCEPT ![s] = [sess[s] EXCEPT !.gone = TRUE]]
    <3> DEFINE r == [sess[s] EXCEPT !.gone = TRUE]
    <3>1. /\ r.pc = sess[s].pc /\ r.file = sess[s].file /\ r.off = sess[s].off
          /\ r.seen = sess[s].seen /\ r.to = sess[s].to /\ r.at = sess[s].at
          /\ r.alone = sess[s].alone
      BY <2>1, Zenon DEF Session
    <3>2. sess' = [sess EXCEPT ![s] = r]
      BY <2>4
    <3> HIDE DEF r
    <3>3. ~spoiled /\ r.alone => Finds(r, part, meta, dest)
      BY <2>2, <3>1 DEF Finds
    <3> QED BY <2>1, <3>2, <3>3, QuietStep
  <2> QED BY <1>1, <2>3, <2>4, Zenon DEF Cancel, Lose
<1>2. ASSUME NEW s \in Sessions, Refuse(s) PROVE Unspoiled'
  BY <1>2 DEF Refuse, Unspoiled
<1>3. ASSUME Crash PROVE Unspoiled'
  <2>1. /\ part' = part /\ meta' = meta /\ dest' = dest /\ spoiled' = spoiled
        /\ \A t \in Sessions : sess'[t] = Cut(sess[t])
    BY <1>3 DEF Crash, Guest
  <2>2. ASSUME ~spoiled, NEW t \in Sessions, Cut(sess[t]).alone
        PROVE  Finds(Cut(sess[t]), part, meta, dest)
    <3>1. sess[t] \in Session /\ (sess[t].alone => Finds(sess[t], part, meta, dest))
      BY <2>2 DEF Sessionwise, Unspoiled
    <3> QED BY <2>2, <3>1, CutFinds
  <2>3. ~spoiled => MetaTrue(meta, part)
    BY DEF Unspoiled
  <2> QED BY <2>1, <2>2, <2>3 DEF Unspoiled
<1>4. ASSUME Discard PROVE Unspoiled'
  <2>1. part' = Absent /\ \A t \in Sessions : ~sess'[t].alone
    BY <1>4 DEF Discard, Sessionwise, Session
  <2> QED BY <2>1 DEF Unspoiled, MetaTrue
<1> QED BY <1>1, <1>2, <1>3, <1>4

\* The part and .meta are cleared and .meta written for a new part.
LEMMA ClearStep ==
  ASSUME Sessionwise, Unspoiled, NEW s \in Sessions,
         UnlinkPart(s) \/ UnlinkMeta(s) \/ WriteMeta(s) \/ CleanMeta(s)
  PROVE  Unspoiled'
<1>1. /\ sess[s] \in Session /\ sess[s].file \in Files /\ sess[s].to = "none"
      /\ Sound(sess[s])
  BY DEF UnlinkPart, UnlinkMeta, WriteMeta, CleanMeta, Sessionwise, Sound
<1>2. spoiled' = (spoiled \/ ~sess[s].alone)
  BY Zenon DEF UnlinkPart, UnlinkMeta, WriteMeta, CleanMeta, ChangesOnly, Changes
<1>3. ~spoiled' => MetaTrue(meta, part) /\ Finds(sess[s], part, meta, dest)
  BY <1>2, AloneFinds
<1>4. ASSUME NEW pc \in {"unmeta", "name", "open"},
             sess[s].pc \in {"unpart", "unmeta", "name"}
      PROVE  /\ Sound([sess[s] EXCEPT !.pc = pc])
             /\ [sess[s] EXCEPT !.pc = pc].pc = pc
             /\ [sess[s] EXCEPT !.pc = pc].file = sess[s].file
             /\ [sess[s] EXCEPT !.pc = pc].to = "none"
             /\ [sess[s] EXCEPT !.pc = pc].off = 0
  <2> DEFINE r == [sess[s] EXCEPT !.pc = pc]
  <2>1. pc \in Points
    BY DEF Points, BeforeBody
  <2>2. r \in Session
    BY <1>1, <2>1, Zenon DEF Session
  <2>3. /\ r.pc = pc /\ r.file = sess[s].file /\ r.to = "none" /\ r.off = sess[s].off
        /\ r.alone = sess[s].alone
    BY <1>1, MovedFields
  <2>4. sess[s].off = 0
    BY <1>1, <1>4 DEF Sound
  <2> HIDE DEF r
  <2>5. Sound(r)
    BY <1>1, <2>2, <2>3, <2>4 DEF Sound
  <2> QED BY <2>3, <2>4, <2>5 DEF r
<1>5. CASE UnlinkPart(s)
  <2> DEFINE r == [sess[s] EXCEPT !.pc = "unmeta"]
  <2>1. Changes(s, r, "part", "orphan") /\ part' = Absent /\ sess[s].pc = "unpart"
    BY <1>5 DEF UnlinkPart
  <2>2. Sound(r) /\ r.pc = "unmeta" /\ r.to = "none"
    BY <1>4, <2>1
  <2> HIDE DEF r
  <2>3. MetaTrue(meta', part') /\ Finds(r, part', meta', dest')
    BY <2>1, <2>2 DEF MetaTrue, Finds
  <2> QED BY <2>1, <2>2, <2>3, ChangesStep
<1>6. CASE UnlinkMeta(s)
  <2> DEFINE r == [sess[s] EXCEPT !.pc = "name"]
  <2>1. /\ Changes(s, r, "none", "none") /\ meta' = NoFile /\ part' = part
        /\ sess[s].pc = "unmeta"
    BY <1>6 DEF UnlinkMeta, ChangesOnly
  <2>2. Sound(r) /\ r.pc = "name" /\ r.to = "none"
    BY <1>4, <2>1
  <2> HIDE DEF r
  <2>3. ~spoiled' => MetaTrue(meta', part') /\ Finds(r, part', meta', dest')
    BY <1>3, <2>1, <2>2 DEF MetaTrue, Finds
  <2> QED BY <2>1, <2>2, <2>3, ChangesStep
<1>7. CASE WriteMeta(s)
  <2> DEFINE r == [sess[s] EXCEPT !.pc = "open"]
  <2>1. /\ Changes(s, r, "none", "none") /\ meta' = sess[s].file /\ part' = part
        /\ sess[s].pc = "name"
    BY <1>7 DEF WriteMeta, ChangesOnly
  <2>2. Sound(r) /\ r.pc = "open" /\ r.to = "none" /\ r.off = 0 /\ r.file = sess[s].file
    BY <1>4, <2>1
  <2> HIDE DEF r
  <2>3. ~spoiled' => MetaTrue(meta', part') /\ Finds(r, part', meta', dest')
    BY <1>3, <2>1, <2>2 DEF MetaTrue, Finds
  <2> QED BY <2>1, <2>2, <2>3, ChangesStep
<1>8. CASE CleanMeta(s)
  <2>1. Changes(s, Free, "none", "none") /\ meta' = NoFile
    BY <1>8 DEF CleanMeta, ChangesOnly
  <2>2. Sound(Free) /\ Free.pc = "free" /\ Free.to = "none"
    BY FreeSound DEF Free
  <2>3. MetaTrue(meta', part') /\ Finds(Free, part', meta', dest')
    BY <2>1, <2>2 DEF MetaTrue, Finds
  <2> QED BY <2>1, <2>2, <2>3, ChangesStep
<1> QED BY <1>5, <1>6, <1>7, <1>8

\* A chunk that a session alone writes goes on with its file.
LEMMA PutsStep ==
  ASSUME Sessionwise, Unspoiled, NEW s \in Sessions, NEW r, Sound(r), Puts(s, r),
         sess[s].pc \in {"write", "dying"}, sess[s].at <= Size[sess[s].file],
         UNCHANGED meta, r.to \in {sess[s].to, "none"},
         \/ r.pc = "free"
         \/ /\ r.pc = "write" /\ r.file = sess[s].file /\ r.at = sess[s].at + 1
            /\ r.to = sess[s].to /\ r.alone = sess[s].alone
  PROVE  Unspoiled' /\ (~spoiled' => dest' = dest)
<1>1. /\ sess[s].file \in Files /\ sess[s].at \in Nat \ {0} /\ sess[s].at - 1 \in Nat
      /\ sess[s].at \in 0..Size[sess[s].file]
  BY DEF Sessionwise, Sound, Session
<1>2. CASE ChangesOnly(s, r)
  <2>1. Changes(s, r, "none", "none") /\ spoiled' = (spoiled \/ ~sess[s].alone)
    BY <1>2, Zenon DEF ChangesOnly, Changes
  <2>2. ASSUME ~spoiled'
        PROVE  /\ MetaTrue(meta', part') /\ Finds(r, part', meta', dest')
               /\ dest' = dest
    <3>1. /\ meta = sess[s].file /\ sess[s].to = "part"
          /\ part = Prefix(sess[s].file, sess[s].at - 1)
      BY <2>1, <2>2, AloneFinds DEF Finds
    <3>2. part' = Prefix(sess[s].file, sess[s].at) /\ dest' = dest /\ meta' = meta
      BY <1>1, <3>1, PrefixGrows DEF Puts
    <3>3. MetaTrue(meta', part')
      BY <1>1, <3>1, <3>2 DEF MetaTrue
    <3>4. r.pc = "write" => r.at - 1 = sess[s].at
      BY <1>1
    <3>5. Finds(r, part', meta', dest')
      BY <3>1, <3>2, <3>4 DEF Finds
    <3> QED BY <3>2, <3>3, <3>5
  <2> QED BY <2>1, <2>2, ChangesStep
<1>3. CASE sess[s].to = "orphan" /\ sess' = [sess EXCEPT ![s] = r] /\ UNCHANGED spoiled
  <2>1. UNCHANGED Guest /\ spoiled' = spoiled
    BY <1>3, Zenon DEF Puts, Guest
  <2>2. ~spoiled => ~sess[s].alone
    BY <1>3 DEF Unspoiled, Finds
  <2>3. ~spoiled' /\ r.alone => Finds(r, part, meta, dest)
    BY <2>1, <2>2 DEF Finds
  <2>4. sess' = [sess EXCEPT ![s] = r]
    BY <1>3
  <2>5. Unspoiled'
    BY <2>1, <2>3, <2>4, QuietStep, Zenon
  <2> QED BY <2>1, <2>5 DEF Guest
<1> QED BY <1>2, <1>3 DEF Puts

\* A session that writes, or what is left of one.
LEMMA WriteStep ==
  ASSUME Sessionwise, Unspoiled, NEW s \in Sessions, WriteChunk(s) \/ Die(s)
  PROVE  Unspoiled' /\ (~spoiled' => dest' = dest)
<1>1. CASE WriteChunk(s)
  <2> DEFINE r == [sess[s] EXCEPT !.at = @ + 1]
  <2>1. /\ Puts(s, r) /\ sess[s].pc = "write" /\ sess[s].at <= Size[sess[s].file]
        /\ meta' = meta
    BY <1>1 DEF WriteChunk
  <2>2. sess[s] \in Session /\ Sound(sess[s])
    BY DEF Sessionwise
  <2>3. sess[s].at + 1 \in Nat \ {0}
    BY <2>2 DEF Session
  <2>4. r \in Session
    BY <2>2, <2>3, Zenon DEF Session
  <2>5. /\ r.pc = sess[s].pc /\ r.file = sess[s].file /\ r.at = sess[s].at + 1
        /\ r.to = sess[s].to /\ r.alone = sess[s].alone /\ r.off = sess[s].off
    BY <2>2, Zenon DEF Session
  <2> HIDE DEF r
  <2>6. Sound(r)
    <3>1. r.at <= Size[r.file] + 1
      BY <2>1, <2>2, <2>5 DEF Sound, Session
    <3>2. /\ r.pc # "free" => r.file \in Files
          /\ r.file \in Files => r.off <= Size[r.file]
          /\ r.off > 0 => r.file \in Files
          /\ r.pc \in {"unpart", "unmeta", "name"} => r.off = 0
          /\ r.to # "none" => r.pc \in {"write", "dying"}
      BY <2>2, <2>5 DEF Sound
    <3>3. r.to = "dest" => ~r.alone
      BY <2>2, <2>5, Zenon DEF Sound
    <3> QED BY <2>4, <3>1, <3>2, <3>3 DEF Sound
  <2> QED BY <2>1, <2>5, <2>6, PutsStep
<1>2. CASE Die(s)
  <2>1. /\ sess[s].pc = "dying" /\ meta' = meta
        /\ \/ sess[s].at <= Size[sess[s].file] /\ Puts(s, Free)
           \/ sess' = [sess EXCEPT ![s] = Free] /\ UNCHANGED <<part, dest, spoiled>>
    BY <1>2 DEF Die
  <2>2. Sound(Free) /\ Free.pc = "free" /\ Free.to = "none"
    BY FreeSound DEF Free
  <2>3. CASE sess[s].at <= Size[sess[s].file] /\ Puts(s, Free)
    BY <2>1, <2>2, <2>3, PutsStep
  <2>4. CASE sess' = [sess EXCEPT ![s] = Free] /\ UNCHANGED <<part, dest, spoiled>>
    <3>1. UNCHANGED Guest /\ dest' = dest
      BY <2>1, <2>4 DEF Guest
    <3>2. (spoiled => spoiled') /\ sess' = [sess EXCEPT ![s] = Free]
      BY <2>4, Zenon
    <3> QED BY <3>1, <3>2, EndsStep, Zenon
  <2> QED BY <2>1, <2>3, <2>4
<1> QED BY <1>1, <1>2

\* The part is opened as it was checked, or empty.
LEMMA OpenStep ==
  ASSUME Sessionwise, Unspoiled, NEW s \in Sessions, Open(s)
  PROVE  Unspoiled'
<1> DEFINE r(w) == [sess[s] EXCEPT !.pc = "write", !.way = w, !.to = "part",
                                   !.at = sess[s].off + 1, !.off = 0, !.seen = 0]
<1>1. /\ sess[s] \in Session /\ sess[s].file \in Files /\ sess[s].off \in Nat
      /\ sess[s].off <= Size[sess[s].file] /\ sess[s].pc = "open" /\ sess[s].to = "none"
      /\ meta' = meta /\ dest' = dest
  BY DEF Open, Sessionwise, Sound, Session
<1>2. \/ Ends(s) /\ UNCHANGED <<part, spoiled>>
      \/ \E w \in {"cat", "append", "sftp"} :
           /\ part' = IF sess[s].off = 0 \/ part = Absent THEN <<>> ELSE part
           /\ ChangesOnly(s, r(w))
  <2>1. PICK way \in {"cat", "sftp"} :
          LET w == IF way = "cat" /\ sess[s].off > 0 THEN "append" ELSE way
          IN \/ Ends(s) /\ UNCHANGED <<part, spoiled>>
             \/ /\ part' = IF sess[s].off = 0 \/ part = Absent THEN <<>> ELSE part
                /\ ChangesOnly(s, r(w))
    BY Zenon DEF Open
  <2> HIDE DEF r
  <2> QED BY <2>1
<1>3. CASE Ends(s) /\ UNCHANGED <<part, spoiled>>
  <2>1. UNCHANGED Guest
    BY <1>1, <1>3 DEF Guest
  <2>2. sess' = [sess EXCEPT ![s] = Free] /\ (spoiled => spoiled')
    BY <1>3, Zenon DEF Ends
  <2> QED BY <2>1, <2>2, EndsStep, Zenon
<1>4. ASSUME NEW w \in {"cat", "append", "sftp"}, ChangesOnly(s, r(w)),
             part' = IF sess[s].off = 0 \/ part = Absent THEN <<>> ELSE part
      PROVE  Unspoiled'
  <2>1. /\ sess[s].off + 1 \in Nat \ {0} /\ 0 \in Nat /\ "write" \in Points
        /\ "part" \in {"none", "part", "dest", "orphan"}
    BY <1>1 DEF Points
  <2>2. r(w) \in Session
    BY <1>1, <2>1, Zenon DEF Session
  <2>3. /\ r(w).pc = "write" /\ r(w).file = sess[s].file /\ r(w).off = 0
        /\ r(w).to = "part" /\ r(w).at = sess[s].off + 1
    BY <1>1, Zenon DEF Session
  <2> HIDE DEF r
  <2>4. Sound(r(w))
    BY <1>1, <2>2, <2>3 DEF Sound
  <2>5. Changes(s, r(w), "none", "none")
    BY <1>4 DEF ChangesOnly
  <2>6. ASSUME ~spoiled'
        PROVE  MetaTrue(meta', part') /\ Finds(r(w), part', meta', dest')
    <3>1. spoiled' = (spoiled \/ ~sess[s].alone)
      BY <2>5, Zenon DEF Changes
    <3>2. /\ meta = sess[s].file
          /\ part = IF sess[s].off = 0 THEN Absent ELSE Prefix(sess[s].file, sess[s].off)
      BY <1>1, <2>6, <3>1, AloneFinds DEF Finds
    <3>3. Prefix(sess[s].file, 0) = <<>>
      BY DEF Prefix
    <3>4. part' = Prefix(sess[s].file, sess[s].off)
      BY <1>1, <1>4, <3>2, <3>3, PrefixLength
    <3>5. MetaTrue(meta', part')
      BY <1>1, <3>2, <3>4 DEF MetaTrue
    <3>6. r(w).at - 1 = sess[s].off
      BY <1>1, <2>3
    <3>7. Finds(r(w), part', meta', dest')
      BY <1>1, <2>3, <3>2, <3>4, <3>6 DEF Finds
    <3> QED BY <3>5, <3>7
  <2> QED BY <2>3, <2>4, <2>5, <2>6, ChangesStep
<1> HIDE DEF r
<1> QED BY <1>2, <1>3, <1>4

\* The destination goes only while a whole file is beside it.
LEMMA UnlinkDestStep ==
  ASSUME Sessionwise, Unspoiled, NEW s \in Sessions, UnlinkDest(s)
  PROVE  Unspoiled' /\ (~spoiled' => part = Whole(sess[s].file) /\ sess[s].file \in Files)
<1>1. /\ part' = part /\ meta' = meta /\ dest' = Absent /\ sess[s].pc = "undest"
      /\ sess' = [t \in Sessions |->
                    IF t = s THEN [sess[t] EXCEPT !.pc = "rename"]
                    ELSE IF sess[t].to = "dest" THEN [sess[t] EXCEPT !.to = "orphan"]
                    ELSE sess[t]]
  BY DEF UnlinkDest
<1>2. spoiled' = (spoiled \/ ~sess[s].alone)
  BY Zenon DEF UnlinkDest
<1>3. sess[s].file \in Files /\ Size[sess[s].file] \in Nat
  BY <1>1 DEF Sessionwise, Sound
<1>4. ~spoiled' => MetaTrue(meta, part) /\ part = Whole(sess[s].file)
  BY <1>1, <1>2, AloneFinds DEF Finds
<1>5. ~spoiled' => part # Absent
  BY <1>3, <1>4, PrefixLength DEF Whole
<1>6. ASSUME ~spoiled', NEW t \in Sessions, sess'[t].alone
      PROVE  Finds(sess'[t], part', meta', dest')
  <2>1. sess[t] \in Session /\ Sound(sess[t])
    BY DEF Sessionwise
  <2>2. CASE t = s
    <3> DEFINE r == [sess[s] EXCEPT !.pc = "rename"]
    <3>1. sess'[t] = r
      BY <1>1, <2>2
    <3>2. r.pc = "rename" /\ r.file = sess[s].file
      BY <2>1, <2>2, MovedFields
    <3> HIDE DEF r
    <3> QED BY <1>1, <1>4, <1>6, <3>1, <3>2 DEF Finds
  <2>3. CASE t # s /\ sess[t].to = "dest"
    <3>1. sess'[t] = [sess[t] EXCEPT !.to = "orphan"]
      BY <1>1, <2>3
    <3>2. [sess[t] EXCEPT !.to = "orphan"].alone = sess[t].alone
      BY <2>1, Zenon DEF Session
    <3>3. ~sess[t].alone
      BY <2>1, <2>3 DEF Sound
    <3> QED BY <1>6, <3>1, <3>2, <3>3
  <2>4. CASE t # s /\ sess[t].to # "dest"
    <3>1. sess'[t] = sess[t]
      BY <1>1, <2>4
    <3>2. ~spoiled
      BY <1>2, <1>6
    <3>3. Finds(sess[t], part, meta, dest)
      BY <1>6, <3>1, <3>2 DEF Unspoiled
    <3>4. sess[t].pc # "clean"
      BY <1>5, <1>6, <3>3 DEF Finds
    <3> QED BY <1>1, <3>1, <3>3, <3>4 DEF Finds
  <2> QED BY <2>2, <2>3, <2>4
<1> QED BY <1>1, <1>3, <1>4, <1>6 DEF Unspoiled

\* The part that takes the path is whole.
LEMMA RenameStep ==
  ASSUME Sessionwise, Unspoiled, NEW s \in Sessions, Rename(s)
  PROVE  /\ Unspoiled'
         /\ ~spoiled' => \/ dest' = dest
                         \/ /\ dest = Absent /\ dest' = part /\ sess[s].file \in Files
                            /\ part = Whole(sess[s].file)
<1> DEFINE r == [sess[s] EXCEPT !.pc = "clean"]
<1>1. sess[s] \in Session /\ Sound(sess[s]) /\ sess[s].pc = "rename" /\ meta' = meta
  BY DEF Rename, Sessionwise
<1>2. CASE Ends(s) /\ UNCHANGED <<dest, part, spoiled>>
  <2>1. UNCHANGED Guest /\ dest' = dest
    BY <1>1, <1>2 DEF Guest
  <2>2. sess' = [sess EXCEPT ![s] = Free] /\ (spoiled => spoiled')
    BY <1>2, Zenon DEF Ends
  <2> QED BY <2>1, <2>2, EndsStep, Zenon
<1>3. CASE /\ dest = Absent /\ dest' = part /\ part' = Absent
           /\ Changes(s, r, "part", "dest")
  <2>1. "clean" \in Points /\ sess[s].to = "none" /\ sess[s].file \in Files
    BY <1>1 DEF Points, AfterBody, Sound
  <2>2. r \in Session
    BY <1>1, <2>1, Zenon DEF Session
  <2>3. /\ r.pc = "clean" /\ r.file = sess[s].file /\ r.to = sess[s].to
        /\ r.off = sess[s].off
    BY <1>1, MovedFields
  <2> HIDE DEF r
  <2>4. Sound(r)
    BY <1>1, <2>1, <2>2, <2>3 DEF Sound
  <2>5. spoiled' = (spoiled \/ ~sess[s].alone)
    BY <1>3, Zenon DEF Changes
  <2>6. ~spoiled' => part = Whole(sess[s].file)
    BY <1>1, <2>5, AloneFinds DEF Finds
  <2>7. ~spoiled' => MetaTrue(meta', part') /\ Finds(r, part', meta', dest')
    BY <1>3, <2>3, <2>6 DEF MetaTrue, Finds
  <2>8. Unspoiled'
    BY <1>3, <2>1, <2>3, <2>4, <2>7, ChangesStep
  <2> QED BY <1>3, <2>1, <2>6, <2>8
<1> HIDE DEF r
<1> QED BY <1>2, <1>3 DEF Rename, r

\* Every step keeps what the sessions find.
LEMMA UnspoiledStep ==
  ASSUME Sessionwise, Unspoiled, [Next]_vars
  PROVE  Unspoiled'
<1>1. CASE UNCHANGED vars
  BY <1>1 DEF vars, Unspoiled
<1> QED BY <1>1, LooksStep, CheckStep, CloseStep, EventStep, ClearStep, WriteStep,
           OpenStep, UnlinkDestStep, RenameStep DEF Next, Step

LEMMA InitInv == Init => IInv
<1> SUFFICES ASSUME Init PROVE IInv
  OBVIOUS
<1>1. \A s \in Sessions : sess[s] = Free
  BY DEF Init
<1>2. Sessionwise
  <2>1. sess = [s \in Sessions |-> Free]
    BY DEF Init
  <2> QED BY <1>1, <2>1, FreeSound DEF Sessionwise, Sound
<1>3. \/ part = Absent /\ meta = NoFile
      \/ \E f \in Files, n \in Nat : part = Prefix(f, n) /\ n <= Size[f] /\ meta = f
  BY DEF Init
<1>4. Typed
  <2>1. Free.to = "none"
    BY DEF Free
  <2>2. part \in {Absent} \cup Seq(Chunks) /\ meta \in Files \cup {NoFile}
    BY <1>3, PrefixType
  <2> QED BY <1>1, <2>1, <2>2 DEF Init, Typed
<1>5. Unspoiled
  <2>1. MetaTrue(meta, part)
    BY <1>3 DEF MetaTrue
  <2>2. Finds(Free, part, meta, dest)
    BY DEF Free, Finds
  <2> QED BY <1>1, <2>1, <2>2 DEF Unspoiled
<1> QED BY <1>2, <1>4, <1>5 DEF IInv

LEMMA Invariance == IInv /\ [Next]_vars => IInv'
<1> SUFFICES ASSUME IInv, [Next]_vars PROVE IInv'
  OBVIOUS
<1>1. Sessionwise /\ Typed /\ Unspoiled /\ meta \in Files \cup {NoFile} /\ SizeOf(part) \in Nat
  BY SizeType DEF IInv, Typed
<1> QED BY <1>1, SessionwiseStep, TypedStep, UnspoiledStep DEF IInv

LEMMA AlwaysInv == Spec => []IInv
BY InitInv, Invariance, PTL DEF Spec

(****************************** Theorems ***********************************)

\* How a step of the browser's uploads counts, and what it spoils.
LEMMA Bookkeeping ==
  ASSUME [Next]_vars
  PROVE  /\ live' \in {live, {}} \/ \E s \in Sessions : live' \in {live \ {s}, {s}}
         /\ stops' = stops \/ (stops < MaxStops /\ stops' = stops + 1)
         /\ \/ spoiled' = spoiled \/ spoiled' = TRUE
            \/ \E s \in Sessions : spoiled' = (spoiled \/ ~sess[s].alone)
            \/ \E id \in {meta, NoFile} : spoiled' = (spoiled \/ id = NoFile)
<1> USE DEF Stopped, Ends, Goes, ChangesOnly, Changes, Reads, Puts
<1>1. ASSUME NEW s \in Sessions,
             \/ Start(s) \/ AskSize(s) \/ AskMeta(s) \/ Choose(s) \/ HaveSize(s) \/ Check(s)
      PROVE  /\ live' \in {live, live \ {s}, {s}}
             /\ stops' = stops \/ (stops < MaxStops /\ stops' = stops + 1)
             /\ \/ spoiled' = spoiled
                \/ \E id \in {meta, NoFile} : spoiled' = (spoiled \/ id = NoFile)
  BY <1>1, Zenon DEF Start, AskSize, AskMeta, Choose, HaveSize, Check
<1>2. ASSUME NEW s \in Sessions,
             \/ UnlinkPart(s) \/ UnlinkMeta(s) \/ WriteMeta(s) \/ Open(s) \/ WriteChunk(s)
             \/ CloseFile(s) \/ Skip(s) \/ Hang(s) \/ StatPart(s) \/ UnlinkDest(s)
             \/ Rename(s) \/ CleanMeta(s) \/ Die(s)
      PROVE  /\ live' \in {live, live \ {s}} /\ stops' = stops
             /\ spoiled' = spoiled \/ spoiled' = (spoiled \/ ~sess[s].alone)
  BY <1>2, Zenon DEF UnlinkPart, UnlinkMeta, WriteMeta, Open, WriteChunk, CloseFile, Skip,
     Hang, StatPart, UnlinkDest, Rename, CleanMeta, Die
<1>3. ASSUME NEW s \in Sessions, Cancel(s) \/ Lose(s) \/ Refuse(s)
      PROVE  /\ live' \in {{}, live \ {s}} /\ stops < MaxStops /\ stops' = stops + 1
             /\ spoiled' = spoiled \/ spoiled' = TRUE
  BY <1>3, Zenon DEF Cancel, Lose, Refuse
<1>4. CASE Crash \/ Discard
  BY <1>4, Zenon DEF Crash, Discard
<1>5. CASE UNCHANGED vars
  BY <1>5, Zenon DEF vars
<1> QED BY <1>1, <1>2, <1>3, <1>4, <1>5, Zenon DEF Next, Step

LEMMA Monotone ==
  ASSUME [Next]_vars
  PROVE  spoiled => spoiled'
BY Bookkeeping, Zenon

Counts == live \subseteq Sessions /\ stops \in 0..MaxStops /\ spoiled \in BOOLEAN

LEMMA Counted ==
  /\ Init => Counts
  /\ Counts /\ [Next]_vars => Counts'
<1>1. Init => Counts
  <2>1. Init => live = {} /\ stops = 0 /\ spoiled = FALSE
    BY Zenon DEF Init
  <2>2. live = {} /\ stops = 0 => live \subseteq Sessions /\ stops \in 0..MaxStops
    OBVIOUS
  <2>3. spoiled = FALSE => spoiled \in BOOLEAN
    BY Zenon
  <2> QED BY <2>1, <2>2, <2>3, Zenon DEF Counts
<1>2. ASSUME Counts, [Next]_vars PROVE Counts'
  <2>1. live' \subseteq Sessions
    <3>1. live' \in {live, {}} \/ \E s \in Sessions : live' \in {live \ {s}, {s}}
      BY <1>2, Bookkeeping
    <3> QED BY <1>2, <3>1 DEF Counts
  <2>2. stops' \in 0..MaxStops
    <3>1. stops' = stops \/ (stops < MaxStops /\ stops' = stops + 1)
      BY <1>2, Bookkeeping
    <3> QED BY <1>2, <3>1 DEF Counts
  <2>3. spoiled' \in BOOLEAN
    <3>1. \/ spoiled' = spoiled \/ spoiled' = TRUE
          \/ \E s \in Sessions : spoiled' = (spoiled \/ ~sess[s].alone)
          \/ \E id \in {meta, NoFile} : spoiled' = (spoiled \/ id = NoFile)
      BY <1>2, Bookkeeping
    <3> QED BY <1>2, <3>1 DEF Counts
  <2> QED BY <2>1, <2>2, <2>3 DEF Counts
<1> QED BY <1>1, <1>2

\* The declared types of files, sessions and history hold for files of any
\* size and any number of uploads at once.
THEOREM TypeCorrect == Spec => []TypeOK
<1>1. IInv /\ Counts => TypeOK
  <2> SUFFICES ASSUME IInv, Counts PROVE TypeOK
    OBVIOUS
  <2>1. sess \in [Sessions -> Session] /\ \A s \in Sessions : Sound(sess[s])
    BY DEF IInv, Sessionwise
  <2>2. \A s \in Sessions : sess[s].off > 0 => sess[s].off <= Size[sess[s].file]
    BY <2>1 DEF Sound
  <2>3. {dest, part} \subseteq {Absent, Before} \cup Seq(Chunks) /\ meta \in Files \cup {NoFile}
    BY DEF IInv, Typed
  <2> QED BY <2>1, <2>2, <2>3 DEF Counts, TypeOK, Session, Points
<1> QED BY <1>1, AlwaysInv, Counted, PTL DEF Spec

\* An upload that reports success has left its own file, whole, at the path,
\* unless somebody interfered between its check and its end.
THEOREM DoneTrue == Spec => []DoneIsTrue
<1>1. IInv => DoneIsTrue
  BY DEF IInv, Unspoiled, Finds, DoneIsTrue
<1> QED BY <1>1, AlwaysInv, PTL

\* Uploading over a file implements FileReplace: the old file is removed only
\* beside a whole one, and only a whole one takes its place.
THEOREM PathReplaced == Spec => Replaces
<1>1. Init => Path!Init
  BY DEF Init, Path!Init
<1>2. IInv /\ [Next]_vars => [Path!Next]_<<dest, part, spoiled>>
  <2> SUFFICES ASSUME IInv, [Next]_vars, ~spoiled'
               PROVE  [Path!Next]_<<dest, part, spoiled>>
    BY DEF Path!Next
  <2> USE DEF IInv, Path!Next, Path!Prepare, Path!Remove, Path!Replace
  <2>1. ASSUME NEW s \in Sessions, UnlinkDest(s)
        PROVE  part \in {Whole(f) : f \in Files} /\ dest' = Absent /\ part' = part
    BY <2>1, UnlinkDestStep DEF UnlinkDest
  <2>2. ASSUME NEW s \in Sessions, Rename(s)
        PROVE  \/ dest' = dest
               \/ dest = Absent /\ dest' = part /\ part \in {Whole(f) : f \in Files}
    BY <2>2, RenameStep
  <2>3. ASSUME NEW s \in Sessions, WriteChunk(s) \/ Die(s)
        PROVE  dest' = dest
    BY <2>3, WriteStep
  <2>4. ASSUME NEW s \in Sessions,
               \/ Start(s) \/ AskSize(s) \/ AskMeta(s) \/ Choose(s) \/ HaveSize(s) \/ Check(s)
               \/ UnlinkPart(s) \/ UnlinkMeta(s) \/ WriteMeta(s) \/ Open(s) \/ CloseFile(s)
               \/ Skip(s) \/ Hang(s) \/ StatPart(s) \/ CleanMeta(s)
               \/ Cancel(s) \/ Lose(s) \/ Refuse(s)
        PROVE  dest' = dest
    BY <2>4 DEF Guest, Start, AskSize, AskMeta, Choose, HaveSize, Check, UnlinkPart,
       UnlinkMeta, WriteMeta, Open, CloseFile, Skip, Hang, StatPart, CleanMeta,
       Cancel, Lose, Refuse
  <2>5. CASE Crash \/ Discard
    BY <2>5 DEF Crash, Discard, Guest
  <2>6. CASE UNCHANGED vars
    BY <2>6 DEF vars
  <2>7. ~spoiled
    BY Monotone, Zenon
  <2> QED BY <2>1, <2>2, <2>3, <2>4, <2>5, <2>6, <2>7 DEF Next, Step
<1> QED BY <1>1, <1>2, AlwaysInv, PTL DEF Spec, Replaces, Path!Spec

=============================================================================
