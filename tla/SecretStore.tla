----------------------------- MODULE SecretStore -----------------------------
(***************************************************************************)
(* The encrypted secrets in the .env file (config/secret_store.py) and the *)
(* processes that read and write them: `banking secrets set`               *)
(* (cli/secrets.py) and every SecretStore().get of the program.            *)
(*                                                                         *)
(* set is a read of the whole file followed by a write of the whole file,  *)
(* and the write opens the file for writing, which empties it, before it   *)
(* puts the new lines there.                                               *)
(*                                                                         *)
(* What is abstracted: an encrypted value is the pair of its text and the  *)
(* master key it was encrypted with; the file is what its lines say, and   *)
(* fits one write call.  A file that does not exist reads like an empty    *)
(* one.                                                                    *)
(***************************************************************************)
EXTENDS Naturals

CONSTANTS
  Process,    \* processes using the store
  MasterOf,   \* BANKING_MASTER_KEY of each process, NoMaster if unset or malformed
  Master, NoMaster,
  Name, Text, \* secrets and what they may say
  Plain,      \* marks a line written by hand, not encrypted
  Comment,    \* comment lines
  Overlap,    \* whether calls of two processes may overlap
  MaxFaults,  \* bound: failed writes and killed processes in a behaviour
  Absent, NoText

Stored == [text : Text, by : Master \cup {Plain}]
Lines  == [Name -> Stored \cup {Absent}]

ASSUME MastersAreKeys  == MasterOf \in [Process -> Master \cup {NoMaster}] /\ NoMaster \notin Master
ASSUME PlainIsNoMaster == Plain \notin Master \cup {NoMaster}
ASSUME BoundsAreGiven  == Overlap \in BOOLEAN /\ MaxFaults \in Nat
ASSUME AbsentIsNoValue == Absent \notin Stored /\ NoText \notin Text

VARIABLES
  file,     \* the lines and comments of .env
  pc,       \* what each process does next in its call
  call,     \* the arguments of its call
  copy,     \* the entries it has read
  outcome,  \* how its last call ended
  got,      \* what its last get returned
  faults,   \* faults left in this behaviour
  acked     \* history: per name, what the last set that returned had stored

vars == <<file, pc, call, copy, outcome, got, faults, acked>>

NoLines == [n \in Name |-> Absent]
Empty   == [lines |-> NoLines, comments |-> {}]

AtRest  == {"idle", "done", "failed"}
NoCall  == [op |-> "none"]
Call    == [op : {"set"}, name : Name, text : Text] \cup [op : {"get"}, name : Name]

TypeOK ==
  /\ file \in [lines : Lines, comments : SUBSET Comment]
  /\ pc \in [Process -> {"read", "truncate", "write"} \cup AtRest]
  /\ call \in [Process -> Call \cup {NoCall}]
  /\ copy \in [Process -> Lines]
  /\ outcome \in [Process -> {"none", "ok", "ConfigurationError", "OSError",
                              "KeyError", "DecryptionError"}]
  /\ got \in [Process -> Text \cup {NoText}]
  /\ faults \in 0..MaxFaults
  /\ acked \in Lines
-----------------------------------------------------------------------------
\* .env was written by hand, with comments, or by an earlier set.
Init ==
  /\ file \in [lines : Lines, comments : {{}, Comment}]
  /\ pc = [p \in Process |-> "idle"]
  /\ call = [p \in Process |-> NoCall]
  /\ copy = [p \in Process |-> NoLines]
  /\ outcome = [p \in Process |-> "none"]
  /\ got = [p \in Process |-> NoText]
  /\ faults = MaxFaults
  /\ acked = file.lines

Goes(p, next) == pc' = [pc EXCEPT ![p] = next]

Ends(p, state, how) ==
  /\ pc' = [pc EXCEPT ![p] = state]
  /\ outcome' = [outcome EXCEPT ![p] = how]

\* Mutant: the store is built without looking at the master key.
Start_AnyMaster(p, c) ==
  /\ pc[p] \in AtRest
  /\ Overlap \/ \A q \in Process : pc[q] \in AtRest
  /\ call' = [call EXCEPT ![p] = c]
  /\ copy' = [copy EXCEPT ![p] = NoLines]
  /\ got' = [got EXCEPT ![p] = NoText]
  /\ Ends(p, "read", "none")
  /\ UNCHANGED <<file, faults, acked>>

\* SecretStore() and then set or get.  Without a usable master key nothing is read.
Start(p, c) ==
  /\ pc[p] \in AtRest
  /\ Overlap \/ \A q \in Process : pc[q] \in AtRest
  /\ call' = [call EXCEPT ![p] = c]
  /\ copy' = [copy EXCEPT ![p] = NoLines]
  /\ got' = [got EXCEPT ![p] = NoText]
  /\ IF MasterOf[p] = NoMaster THEN Ends(p, "failed", "ConfigurationError")
                               ELSE Ends(p, "read", "none")
  /\ UNCHANGED <<file, faults, acked>>

\* Mutant: set starts from no entries instead of those of the file.
ReadForSet_Nothing(p) ==
  /\ pc[p] = "read" /\ call[p].op = "set"
  /\ Goes(p, "truncate")
  /\ UNCHANGED <<file, call, copy, outcome, got, faults, acked>>

\* _read_env_file in set: comments and blank lines are not entries.
ReadForSet(p) ==
  /\ pc[p] = "read" /\ call[p].op = "set"
  /\ copy' = [copy EXCEPT ![p] = file.lines]
  /\ Goes(p, "truncate")
  /\ UNCHANGED <<file, call, outcome, got, faults, acked>>

\* Mutant: the authentication tag is not checked.
Decrypts_Unchecked(stored, master) == TRUE

\* _decrypt: a plain value is returned as it is, another key fails the tag.
Decrypts(stored, master) == stored.by \in {Plain, master}

\* get: one read of the file decides.
Get(p) ==
  /\ pc[p] = "read" /\ call[p].op = "get"
  /\ LET stored == file.lines[call[p].name] IN
       \/ stored = Absent /\ Ends(p, "failed", "KeyError") /\ UNCHANGED got
       \/ /\ stored # Absent /\ ~Decrypts(stored, MasterOf[p])
          /\ Ends(p, "failed", "DecryptionError") /\ UNCHANGED got
       \/ /\ stored # Absent /\ Decrypts(stored, MasterOf[p])
          /\ Ends(p, "done", "ok")
          /\ got' = [got EXCEPT ![p] = stored.text]
  /\ UNCHANGED <<file, call, copy, faults, acked>>

\* write_text opens the file for writing: from here to the write it is empty.
Truncate(p) ==
  /\ pc[p] = "truncate"
  /\ file' = Empty
  /\ Goes(p, "write")
  /\ UNCHANGED <<call, copy, outcome, got, faults, acked>>

Values(lines) == {lines[n] : n \in Name}

\* What is in the file after lines were written from its start: all of them, and,
\* where another process had written longer ones since it was emptied, possibly
\* lines of those below, which then count.
WrittenOver(old, lines) ==
  {f \in [Name -> Values(old) \cup Values(lines)] :
     \A n \in Name : f[n] \in {lines[n]} \cup ({old[n]} \ {Absent})}

\* entries[key] = _encrypt(plaintext, self._key)
NewLines(p) ==
  [copy[p] EXCEPT ![call[p].name] = [text |-> call[p].text, by |-> MasterOf[p]]]

WriteOut(p) ==
  /\ pc[p] = "write"
  /\ \E f \in WrittenOver(file.lines, NewLines(p)) :
       file' = [lines |-> f, comments |-> {}]
  /\ acked' = [acked EXCEPT ![call[p].name] = [text |-> call[p].text, by |-> MasterOf[p]]]
  /\ Ends(p, "done", "ok")
  /\ UNCHANGED <<call, copy, got, faults>>

\* The file cannot be read, opened for writing, or written once it was opened
\* (disk full): OSError, exit code 2.
InputOutputFails(p) ==
  /\ pc[p] \in {"read", "truncate", "write"}
  /\ faults > 0 /\ faults' = faults - 1
  /\ Ends(p, "failed", "OSError")
  /\ UNCHANGED <<file, call, copy, got, acked>>

\* The process is interrupted in its call, or ends after it.
ProcessEnds(p) ==
  /\ pc[p] # "idle"
  /\ IF pc[p] \in AtRest THEN UNCHANGED faults ELSE faults > 0 /\ faults' = faults - 1
  /\ Ends(p, "idle", "none")
  /\ call' = [call EXCEPT ![p] = NoCall]
  /\ copy' = [copy EXCEPT ![p] = NoLines]
  /\ got' = [got EXCEPT ![p] = NoText]
  /\ UNCHANGED <<file, acked>>

Next == \E p \in Process :
  \/ \E c \in Call : Start(p, c)
  \/ ReadForSet(p) \/ Get(p) \/ Truncate(p) \/ WriteOut(p)
  \/ InputOutputFails(p) \/ ProcessEnds(p)

Spec == Init /\ [][Next]_vars
-----------------------------------------------------------------------------
(* Safety *)

NobodyWrites == \A p \in Process : pc[p] # "write"

\* SC-005 (spec.md:194-197 of feature 001): a value written to the store is there
\* to be read.  As long as no call was cut short, every name holds what the last
\* set that returned gave it, under the key it was encrypted with, whatever was
\* set for other names since.  (A set cut short between emptying the file and
\* writing it loses every name.)
WrittenIsKept == faults = MaxFaults /\ NobodyWrites => file.lines = acked

\* The postcondition of `secrets set` (contracts/cli-interface.md:52 and :90 of feature
\* 001): after exit code 0 the file contains KEY=enc:<blob>.  As long as no other set of
\* that name has returned since, what a set that returned gave is in the file, whatever
\* other sets did beside it.
ExitZeroIsStored ==
  \A p \in Process :
    LET given == [text |-> call[p].text, by |-> MasterOf[p]] IN
    pc[p] = "done" /\ call[p].op = "set" /\ NobodyWrites /\ acked[call[p].name] = given
      => file.lines[call[p].name] = given

(* Action properties *)

\* A get that returns tells what the last set of that name had stored, and only to
\* a reader with the key it was encrypted with (or when it was written by hand),
\* also after calls that failed or were killed and the file was emptied.
GetTellsTheTruth ==
  [][\A p \in Process : pc[p] = "read" /\ pc'[p] = "done" =>
       LET last == acked[call[p].name] IN
         /\ last # Absent
         /\ got'[p] = last.text
         /\ last.by \in {Plain, MasterOf[p]}]_vars
=============================================================================
