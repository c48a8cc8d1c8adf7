-------------------------- MODULE SecretStoreProofs --------------------------
(***************************************************************************)
(* What the secret store promises to processes that do not overlap, proved *)
(* for every set of processes, master keys, names and texts and any number *)
(* of calls that fail or are killed.                                       *)
(***************************************************************************)
EXTENDS SecretStore, TLAPS

InFile == {"read", "truncate", "write"}

\* A process that got as far as the file has a master key and a call.
Equipped ==
  \A p \in Process : pc[p] \in InFile =>
    /\ MasterOf[p] \in Master
    /\ call[p].name \in Name
    /\ call[p].op = "set" => call[p].text \in Text
    /\ pc[p] \in {"truncate", "write"} => call[p].op = "set"

TInv == TypeOK /\ Equipped

\* Calls do not overlap.
OneAtATime == \A p, q \in Process : pc[p] \in InFile /\ pc[q] \in InFile => p = q

\* What is in the file was acknowledged: an interrupted set may lose a value, but
\* never replaces it with another.
FileIsAcked == \A n \in Name : file.lines[n] \in {acked[n], Absent}

\* What a set is about to write back, and that the file is empty meanwhile.
CopyIsAcked ==
  \A p \in Process : pc[p] \in {"truncate", "write"} =>
    /\ \A n \in Name : copy[p][n] \in {acked[n], Absent}
    /\ faults = MaxFaults => copy[p] = acked

EmptyMeanwhile == \A p \in Process : pc[p] = "write" => file.lines = NoLines

\* What the theorems need of every state, inductive as a whole.
IInv == TInv /\ OneAtATime /\ FileIsAcked /\ CopyIsAcked /\ EmptyMeanwhile /\ WrittenIsKept
-----------------------------------------------------------------------------
(* Types: these hold whether calls overlap or not. *)

LEMMA MasterFacts ==
  ASSUME NEW p \in Process
  PROVE  MasterOf[p] \in Master \cup {NoMaster} /\ NoMaster \notin Master
BY MastersAreKeys

LEMMA InitTInv == Init => TInv
<1> SUFFICES ASSUME Init PROVE TInv
  OBVIOUS
<1>1. NoLines \in Lines
  BY DEF NoLines, Lines
<1>2. MaxFaults \in 0..MaxFaults
  BY BoundsAreGiven
<1>3. file \in [lines : Lines, comments : SUBSET Comment]
  BY DEF Init
<1>4. acked \in Lines
  BY <1>3 DEF Init
<1> QED
  BY <1>1, <1>2, <1>3, <1>4 DEF Init, TInv, TypeOK, Equipped, AtRest, InFile

LEMMA StartTInv ==
  ASSUME TInv, NEW p \in Process, NEW c \in Call, Start(p, c)
  PROVE  TInv'
<1>1. NoLines \in Lines
  BY DEF NoLines, Lines
<1>2. TypeOK'
  BY <1>1 DEF Start, Ends, TInv, TypeOK, AtRest
<1>3. call' = [call EXCEPT ![p] = c] /\ c.name \in Name /\ (c.op = "set" => c.text \in Text)
  BY DEF Start, Call
<1>4. ASSUME NEW q \in Process, pc'[q] \in InFile
      PROVE  /\ MasterOf[q] \in Master
             /\ call'[q].name \in Name
             /\ call'[q].op = "set" => call'[q].text \in Text
             /\ pc'[q] \in {"truncate", "write"} => call'[q].op = "set"
  <2>1. CASE q = p
    BY <1>3, <1>4, <2>1, MasterFacts DEF Start, Ends, TInv, TypeOK, InFile
  <2>2. CASE q # p
    BY <1>3, <1>4, <2>2 DEF Start, Ends, TInv, TypeOK, Equipped
  <2> QED
    BY <2>1, <2>2
<1> QED
  BY <1>2, <1>4 DEF TInv, Equipped

\* A step of a process that stays in its call with the master key it has.
LEMMA EquippedStays ==
  ASSUME TInv, NEW p \in Process, pc[p] \in InFile, UNCHANGED call,
         NEW next, pc' = [pc EXCEPT ![p] = next],
         next \in {"truncate", "write"} => call[p].op = "set"
  PROVE  Equipped'
BY DEF TInv, TypeOK, Equipped

\* What a set writes is what it has read, with its own value in its place.
LEMMA NewLinesFacts ==
  ASSUME TInv, NEW p \in Process, pc[p] = "write"
  PROVE  LET v == [text |-> call[p].text, by |-> MasterOf[p]] IN
         /\ call[p].name \in Name
         /\ v \in Stored
         /\ NewLines(p) = [copy[p] EXCEPT ![call[p].name] = v]
         /\ NewLines(p) \in Lines
BY DEF TInv, TypeOK, Equipped, InFile, NewLines, Stored, Lines

LEMMA WrittenOverFacts ==
  ASSUME NEW old \in Lines, NEW lines \in Lines, NEW f \in WrittenOver(old, lines)
  PROVE  f \in Lines /\ (old = NoLines => f = lines)
<1>1. /\ f \in [Name -> Values(old) \cup Values(lines)]
      /\ \A n \in Name : f[n] \in {lines[n]} \cup ({old[n]} \ {Absent})
  BY DEF WrittenOver
<1>2. \A n \in Name : f[n] \in Stored \cup {Absent}
  BY <1>1 DEF Lines
<1>3. ASSUME old = NoLines PROVE f = lines
  <2>1. \A n \in Name : f[n] = lines[n]
    BY <1>1, <1>3 DEF NoLines
  <2> QED
    BY <1>1, <2>1 DEF Lines
<1> QED
  BY <1>1, <1>2, <1>3 DEF Lines

LEMMA NextTInv == TInv /\ [Next]_vars => TInv'
<1> SUFFICES ASSUME TInv, [Next]_vars PROVE TInv'
  OBVIOUS
<1>0. file.lines \in Lines /\ file.comments \subseteq Comment /\ NoLines \in Lines
  BY DEF TInv, TypeOK, NoLines, Lines
<1>1. CASE UNCHANGED vars
  BY <1>1 DEF vars, TInv, TypeOK, Equipped
<1>2. ASSUME NEW p \in Process, ReadForSet(p) PROVE TInv'
  <2>1. TypeOK'
    BY <1>0, <1>2 DEF ReadForSet, Goes, TInv, TypeOK
  <2>2. Equipped'
    BY <1>2, EquippedStays DEF ReadForSet, Goes, InFile
  <2> QED
    BY <2>1, <2>2 DEF TInv
<1>3. ASSUME NEW p \in Process, Get(p) PROVE TInv'
  <2>1. file.lines[call[p].name] \in Stored \cup {Absent}
    BY <1>0, <1>3 DEF Get, TInv, Equipped, InFile, Lines
  <2>2. TypeOK'
    BY <1>3, <2>1 DEF Get, Ends, TInv, TypeOK, AtRest, Stored
  <2>3. Equipped'
    BY <1>3, EquippedStays DEF Get, Ends, InFile
  <2> QED
    BY <2>2, <2>3 DEF TInv
<1>4. ASSUME NEW p \in Process, Truncate(p) PROVE TInv'
  <2>1. TypeOK'
    BY <1>0, <1>4 DEF Truncate, Goes, TInv, TypeOK, Empty
  <2>2. Equipped'
    BY <1>4, EquippedStays DEF Truncate, Goes, InFile, TInv, Equipped
  <2> QED
    BY <2>1, <2>2 DEF TInv
<1>5. ASSUME NEW p \in Process, WriteOut(p) PROVE TInv'
  <2>1. pc[p] = "write"
    BY <1>5 DEF WriteOut
  <2>2. PICK f \in WrittenOver(file.lines, NewLines(p)) :
          file' = [lines |-> f, comments |-> {}]
    BY <1>5 DEF WriteOut
  <2>3. f \in Lines
    BY <1>0, <1>5, <2>1, <2>2, NewLinesFacts, WrittenOverFacts
  <2>4. acked' \in Lines
    BY <1>5, <2>1, NewLinesFacts DEF WriteOut, TInv, TypeOK, Lines
  <2>5. TypeOK'
    BY <1>5, <2>2, <2>3, <2>4 DEF WriteOut, Ends, TInv, TypeOK, AtRest
  <2>6. Equipped'
    BY <1>5, <2>1, EquippedStays DEF WriteOut, Ends, InFile
  <2> QED
    BY <2>5, <2>6 DEF TInv
<1>6. ASSUME NEW p \in Process, InputOutputFails(p) PROVE TInv'
  <2>1. TypeOK'
    BY <1>6, BoundsAreGiven DEF InputOutputFails, Ends, TInv, TypeOK, AtRest
  <2>2. Equipped'
    BY <1>6, EquippedStays DEF InputOutputFails, Ends, InFile
  <2> QED
    BY <2>1, <2>2 DEF TInv
<1>7. ASSUME NEW p \in Process, ProcessEnds(p) PROVE TInv'
  <2>1. faults' \in 0..MaxFaults
    BY <1>7, BoundsAreGiven DEF ProcessEnds, TInv, TypeOK
  <2>2. TypeOK'
    BY <1>0, <1>7, <2>1 DEF ProcessEnds, Ends, TInv, TypeOK, AtRest
  <2>3. Equipped'
    BY <1>7 DEF ProcessEnds, Ends, InFile, TInv, TypeOK, Equipped
  <2> QED
    BY <2>2, <2>3 DEF TInv
<1> QED
  BY <1>1, <1>2, <1>3, <1>4, <1>5, <1>6, <1>7, StartTInv DEF Next

\* The store and its processes are always well formed, overlapping or not.
THEOREM TypeCorrect == Spec => []TypeOK
BY InitTInv, NextTInv, PTL DEF Spec, TInv
-----------------------------------------------------------------------------
(* Contents: these need that calls do not overlap. *)

\* The part of IInv that speaks of what the file holds.
Contents == OneAtATime /\ FileIsAcked /\ CopyIsAcked /\ EmptyMeanwhile /\ WrittenIsKept

LEMMA InitContents == Init => Contents
BY DEF Init, Contents, OneAtATime, FileIsAcked, CopyIsAcked, EmptyMeanwhile, WrittenIsKept,
       InFile

\* A process leaves the file alone, or stays in it, while no other is there.
LEMMA OneAtATimeStays ==
  ASSUME TInv, OneAtATime, NEW p \in Process, NEW next, pc' = [pc EXCEPT ![p] = next],
         next \in InFile => \A q \in Process \ {p} : pc[q] \notin InFile
  PROVE  OneAtATime'
BY DEF TInv, TypeOK, OneAtATime

LEMMA StartContents ==
  ASSUME ~Overlap, IInv, NEW p \in Process, NEW c \in Call, Start(p, c)
  PROVE  Contents'
<1>1. \A q \in Process : pc[q] \notin InFile
  BY DEF Start, AtRest, InFile
<1>2. PICK next \in {"read", "failed"} : pc' = [pc EXCEPT ![p] = next]
  BY DEF Start, Ends
<1>3. \A q \in Process : pc'[q] \notin {"truncate", "write"}
  BY <1>1, <1>2 DEF InFile, IInv, TInv, TypeOK
<1>4. OneAtATime'
  BY <1>1, <1>2, OneAtATimeStays DEF IInv
<1>5. UNCHANGED <<file, faults, acked>>
  BY DEF Start
<1>6. WrittenIsKept'
  BY <1>1, <1>5 DEF IInv, WrittenIsKept, NobodyWrites, InFile
<1> QED
  BY <1>3, <1>4, <1>5, <1>6 DEF Contents, IInv, FileIsAcked, CopyIsAcked, EmptyMeanwhile

LEMMA ReadForSetContents ==
  ASSUME IInv, NEW p \in Process, ReadForSet(p)
  PROVE  Contents'
<1>1. /\ pc[p] = "read" /\ pc' = [pc EXCEPT ![p] = "truncate"]
      /\ copy' = [copy EXCEPT ![p] = file.lines]
      /\ UNCHANGED <<file, faults, acked>>
  BY DEF ReadForSet, Goes
<1>2. \A q \in Process \ {p} : pc[q] \notin InFile
  BY <1>1 DEF IInv, OneAtATime, InFile
<1>3. OneAtATime'
  BY <1>1, <1>2, OneAtATimeStays DEF IInv
<1>4. \A q \in Process : pc[q] # "write" /\ pc'[q] # "write"
  BY <1>1, <1>2 DEF IInv, TInv, TypeOK, InFile
<1>5. faults = MaxFaults => file.lines = acked
  BY <1>4 DEF IInv, WrittenIsKept, NobodyWrites
<1>6. CopyIsAcked'
  <2> SUFFICES ASSUME NEW q \in Process, pc'[q] \in {"truncate", "write"}
               PROVE  /\ \A n \in Name : copy'[q][n] \in {acked'[n], Absent}
                      /\ faults' = MaxFaults => copy'[q] = acked'
    BY DEF CopyIsAcked
  <2>1. q = p
    BY <1>1, <1>2 DEF IInv, TInv, TypeOK, InFile
  <2>2. copy'[q] = file.lines
    BY <1>1, <2>1 DEF IInv, TInv, TypeOK
  <2> QED
    BY <1>1, <1>5, <2>2 DEF IInv, FileIsAcked
<1> QED
  BY <1>1, <1>3, <1>4, <1>5, <1>6 DEF Contents, IInv, FileIsAcked, EmptyMeanwhile, WrittenIsKept

\* A call that ends without having written.
LEMMA EndingContents ==
  ASSUME IInv, NEW p \in Process, NEW state, state \notin InFile,
         pc' = [pc EXCEPT ![p] = state],
         UNCHANGED <<file, acked>>,
         \A q \in Process \ {p} : copy'[q] = copy[q],
         faults' \in 0..MaxFaults, faults' = MaxFaults => faults = MaxFaults,
         pc[p] = "write" => faults' # MaxFaults
  PROVE  Contents'
<1>1. OneAtATime'
  BY OneAtATimeStays DEF IInv
<1>2. \A q \in Process : pc'[q] \in InFile => q # p /\ pc'[q] = pc[q]
  BY DEF IInv, TInv, TypeOK
<1>3. CopyIsAcked' /\ EmptyMeanwhile'
  BY <1>2 DEF IInv, CopyIsAcked, EmptyMeanwhile, InFile
<1>4. WrittenIsKept'
  <2> SUFFICES ASSUME faults' = MaxFaults, NobodyWrites' PROVE file.lines = acked
    BY DEF WrittenIsKept
  <2>1. \A q \in Process \ {p} : pc[q] = pc'[q]
    BY DEF IInv, TInv, TypeOK
  <2>2. NobodyWrites
    BY <2>1 DEF NobodyWrites
  <2> QED
    BY <2>2 DEF IInv, WrittenIsKept
<1> QED
  BY <1>1, <1>3, <1>4 DEF Contents, IInv, FileIsAcked

LEMMA GetContents ==
  ASSUME IInv, NEW p \in Process, Get(p)
  PROVE  Contents'
<1>1. PICK state \in {"done", "failed"} : pc' = [pc EXCEPT ![p] = state]
  BY DEF Get, Ends
<1>2. UNCHANGED <<file, copy, faults, acked>> /\ pc[p] = "read" /\ faults \in 0..MaxFaults
  BY DEF Get, IInv, TInv, TypeOK
<1> QED
  BY <1>1, <1>2, EndingContents DEF InFile

LEMMA InputOutputFailsContents ==
  ASSUME IInv, NEW p \in Process, InputOutputFails(p)
  PROVE  Contents'
<1>1. faults \in 0..MaxFaults /\ faults' = faults - 1 /\ faults > 0 /\ MaxFaults \in Nat
  BY BoundsAreGiven DEF InputOutputFails, IInv, TInv, TypeOK
<1>2. faults' \in 0..MaxFaults /\ faults' # MaxFaults
  BY <1>1
<1>3. pc' = [pc EXCEPT ![p] = "failed"] /\ UNCHANGED <<file, copy, acked>>
  BY DEF InputOutputFails, Ends
<1> QED
  BY <1>2, <1>3, EndingContents DEF InFile

LEMMA ProcessEndsContents ==
  ASSUME IInv, NEW p \in Process, ProcessEnds(p)
  PROVE  Contents'
<1>1. faults \in 0..MaxFaults /\ MaxFaults \in Nat
  BY BoundsAreGiven DEF IInv, TInv, TypeOK
<1>2. /\ faults' \in 0..MaxFaults
      /\ faults' = MaxFaults => faults = MaxFaults
      /\ pc[p] = "write" => faults' # MaxFaults
  BY <1>1 DEF ProcessEnds, AtRest
<1>3. /\ pc' = [pc EXCEPT ![p] = "idle"] /\ UNCHANGED <<file, acked>>
      /\ \A q \in Process \ {p} : copy'[q] = copy[q]
  BY DEF ProcessEnds, Ends, IInv, TInv, TypeOK
<1> QED
  BY <1>2, <1>3, EndingContents DEF InFile

LEMMA TruncateContents ==
  ASSUME IInv, NEW p \in Process, Truncate(p)
  PROVE  Contents'
<1>1. /\ pc[p] = "truncate" /\ pc' = [pc EXCEPT ![p] = "write"]
      /\ file'.lines = NoLines
      /\ UNCHANGED <<copy, faults, acked>>
  BY DEF Truncate, Goes, Empty
<1>2. \A q \in Process \ {p} : pc[q] \notin InFile
  BY <1>1 DEF IInv, OneAtATime, InFile
<1>3. OneAtATime'
  BY <1>1, <1>2, OneAtATimeStays DEF IInv
<1>4. \A q \in Process : pc'[q] \in InFile => q = p
  BY <1>1, <1>2 DEF IInv, TInv, TypeOK
<1>5. CopyIsAcked'
  BY <1>1, <1>4 DEF IInv, CopyIsAcked, InFile
<1>6. FileIsAcked' /\ EmptyMeanwhile'
  BY <1>1 DEF FileIsAcked, EmptyMeanwhile, NoLines
<1>7. WrittenIsKept'
  <2>1. ~NobodyWrites'
    BY <1>1 DEF NobodyWrites, IInv, TInv, TypeOK
  <2> QED
    BY <2>1 DEF WrittenIsKept
<1> QED
  BY <1>3, <1>5, <1>6, <1>7 DEF Contents

\* The write puts the acknowledged value of every other name back.
LEMMA WriteOutContents ==
  ASSUME IInv, NEW p \in Process, WriteOut(p)
  PROVE  Contents'
<1> DEFINE n == call[p].name
           v == [text |-> call[p].text, by |-> MasterOf[p]]
<1>1. /\ pc[p] = "write" /\ pc' = [pc EXCEPT ![p] = "done"]
      /\ UNCHANGED <<copy, faults>>
      /\ acked' = [acked EXCEPT ![n] = v]
  BY DEF WriteOut, Ends
<1>2. PICK f \in WrittenOver(file.lines, NewLines(p)) : file' = [lines |-> f, comments |-> {}]
  BY DEF WriteOut
<1>3. /\ n \in Name /\ NewLines(p) = [copy[p] EXCEPT ![n] = v] /\ NewLines(p) \in Lines
  BY <1>1, NewLinesFacts DEF IInv
<1>4. file.lines = NoLines /\ file.lines \in Lines
  BY <1>1 DEF IInv, EmptyMeanwhile, TInv, TypeOK
<1>5. file'.lines = [copy[p] EXCEPT ![n] = v]
  BY <1>2, <1>3, <1>4, WrittenOverFacts
<1>6. /\ \A m \in Name : copy[p][m] \in {acked[m], Absent}
      /\ faults = MaxFaults => copy[p] = acked
      /\ copy[p] \in Lines /\ acked \in Lines
  BY <1>1 DEF IInv, CopyIsAcked, TInv, TypeOK
<1>7. FileIsAcked'
  BY <1>1, <1>3, <1>5, <1>6 DEF FileIsAcked, Lines
<1>8. WrittenIsKept'
  BY <1>1, <1>5, <1>6 DEF WrittenIsKept
<1>9. \A q \in Process : pc'[q] \notin InFile
  BY <1>1 DEF IInv, OneAtATime, TInv, TypeOK, InFile
<1>10. OneAtATime' /\ CopyIsAcked' /\ EmptyMeanwhile'
  BY <1>9 DEF OneAtATime, CopyIsAcked, EmptyMeanwhile, InFile
<1> QED
  BY <1>7, <1>8, <1>10 DEF Contents

LEMMA NextIInv == ~Overlap /\ IInv /\ [Next]_vars => IInv'
<1> SUFFICES ASSUME ~Overlap, IInv, [Next]_vars PROVE IInv'
  OBVIOUS
<1>1. TInv'
  BY NextTInv DEF IInv
<1>2. Contents'
  <2>1. CASE UNCHANGED vars
    BY <2>1 DEF vars, IInv, Contents, OneAtATime, FileIsAcked, CopyIsAcked, EmptyMeanwhile,
                WrittenIsKept, NobodyWrites
  <2> QED
    BY <2>1, StartContents, ReadForSetContents, GetContents, TruncateContents,
       WriteOutContents, InputOutputFailsContents, ProcessEndsContents DEF Next
<1> QED
  BY <1>1, <1>2 DEF IInv, Contents
-----------------------------------------------------------------------------
(* The theorems. *)

\* Every reachable state satisfies the inductive invariant, if calls do not overlap.
THEOREM InductiveInvariant ==
  ASSUME ~Overlap
  PROVE  Spec => []IInv
<1>1. Init => IInv
  BY InitTInv, InitContents DEF IInv, Contents
<1>2. IInv /\ [Next]_vars => IInv'
  BY NextIInv
<1> QED
  BY <1>1, <1>2, PTL DEF Spec

\* As long as no call is cut short, every name holds what was last set for it.
THEOREM SecretsAreKept ==
  ASSUME ~Overlap
  PROVE  Spec => []WrittenIsKept
BY InductiveInvariant, PTL DEF IInv

\* Whatever was cut short, a get that returns tells what was last set, to the
\* holder of the key it was encrypted with.
THEOREM ReadersAreToldTheTruth ==
  ASSUME ~Overlap
  PROVE  Spec => GetTellsTheTruth
<1>1. IInv /\ [Next]_vars =>
        [\A p \in Process : pc[p] = "read" /\ pc'[p] = "done" =>
           LET last == acked[call[p].name] IN
             /\ last # Absent
             /\ got'[p] = last.text
             /\ last.by \in {Plain, MasterOf[p]}]_vars
  <2> SUFFICES ASSUME IInv, Next, NEW p \in Process, pc[p] = "read", pc'[p] = "done"
               PROVE  /\ acked[call[p].name] # Absent
                      /\ got'[p] = acked[call[p].name].text
                      /\ acked[call[p].name].by \in {Plain, MasterOf[p]}
    BY DEF vars
  <2>1. Get(p)
    BY DEF Next, Start, ReadForSet, Get, Truncate, WriteOut, InputOutputFails, ProcessEnds,
           Goes, Ends, IInv, TInv, TypeOK, AtRest
  <2> DEFINE stored == file.lines[call[p].name]
  <2>2. stored # Absent /\ Decrypts(stored, MasterOf[p]) /\ got'[p] = stored.text
    BY <2>1 DEF Get, Ends, IInv, TInv, TypeOK
  <2>3. call[p].name \in Name
    BY DEF IInv, TInv, Equipped, InFile
  <2>4. stored = acked[call[p].name]
    BY <2>2, <2>3 DEF IInv, FileIsAcked
  <2> QED
    BY <2>2, <2>4 DEF Decrypts
<1> QED
  BY <1>1, InductiveInvariant, PTL DEF Spec, GetTellsTheTruth
=============================================================================
