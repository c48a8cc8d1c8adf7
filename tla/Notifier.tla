------------------------------ MODULE Notifier ------------------------------
(***************************************************************************)
(* One call of EmailNotifier.notify_failure (notify.py): read five         *)
(* settings from the secret store, build the message, then connect, log in *)
(* and send over SMTP.  It never raises and never tries again: the result  *)
(* is sent, skipped (no usable configuration) or failed.                   *)
(*                                                                         *)
(* What is abstracted: the settings are one of the few states the code     *)
(* tells apart, a message is its subject, and the server is the list of    *)
(* the messages it has accepted.                                           *)
(***************************************************************************)
EXTENDS Naturals, Sequences

CONSTANTS
  Bank,       \* banks of the run the mail is about
  Settings    \* what the store may say of the SMTP keys, see below

\* _load_config gives up on these: no master key, a key that is missing or does
\* not decrypt, a port that is not a number.
Unusable == {"no master key", "missing", "undecryptable", "bad port"}

\* These raise something it does not catch, or only _build_message does: the
\* file cannot be read, an address that is no header value.
Unforeseen == {"unreadable", "unfit address"}

KnownSettings == {"complete"} \cup Unusable \cup Unforeseen

VARIABLES
  settings,  \* what the call found in the secret store
  pc,        \* what the running call does next
  message,   \* the subject of the message it delivers
  result,    \* DeliveryStatus, as soon as it is certain
  inbox      \* history: the messages the server accepted from this run

Subjects == {"total", "partial", "sheets", "sheets and banks"}
Results  == {"none", "sent", "skipped", "failed"}
Running  == {"config", "connect", "login", "send", "quit"}

\* What became of one bank: BankOutcome.succeeded, .failed and .not_onboarded.
Outcomes == {"succeeded", "failed", "not onboarded"}

TypeOK ==
  /\ settings \in Settings \cup {"unread"}
  /\ pc \in Running \cup {"idle", "done"}
  /\ message \in Subjects \cup {"none"}
  /\ result \in Results
  /\ inbox \in Seq(Subjects) /\ Len(inbox) <= 1

\* Mutant: banks without a session keep a total failure "parcial".
Subject_CountsOutcomes(outcome, sheetsFailed) ==
  IF ~sheetsFailed
    THEN IF \A b \in Bank : outcome[b] = "failed" THEN "total" ELSE "partial"
    ELSE IF \E b \in Bank : outcome[b] = "failed" THEN "sheets and banks" ELSE "sheets"

\* _build_subject
Subject(outcome, sheetsFailed) ==
  IF ~sheetsFailed
    THEN IF \A b \in Bank : outcome[b] # "succeeded" THEN "total" ELSE "partial"
    ELSE IF \E b \in Bank : outcome[b] = "failed" THEN "sheets and banks" ELSE "sheets"
-----------------------------------------------------------------------------
Init ==
  /\ settings = "unread"
  /\ pc = "idle"
  /\ message = "none" /\ result = "none" /\ inbox = <<>>

\* notify_failure(...) is called.
Notify(subject) ==
  /\ pc = "idle"
  /\ pc' = "config"
  /\ message' = subject
  /\ result' = "none"
  /\ UNCHANGED <<settings, inbox>>

Goes(next) == pc' = next /\ UNCHANGED <<settings, message, result, inbox>>

Ends(next, how) ==
  /\ pc' = next
  /\ result' = how
  /\ UNCHANGED <<settings, message>>

\* _load_config and _build_message: nothing is contacted yet.
LoadConfig ==
  /\ pc = "config"
  /\ settings' \in Settings
  /\ \/ settings' = "complete" /\ pc' = "connect" /\ UNCHANGED result
     \/ settings' \in Unusable /\ pc' = "done" /\ result' = "skipped"
     \/ settings' \in Unforeseen /\ pc' = "done" /\ result' = "failed"
  /\ UNCHANGED <<message, inbox>>

\* SMTP_SSL: without a connection there is nothing to quit.
Connect ==
  /\ pc = "connect"
  /\ Goes("login") \/ (Ends("done", "failed") /\ UNCHANGED inbox)

Login ==
  /\ pc = "login"
  /\ Goes("send") \/ (Ends("quit", "failed") /\ UNCHANGED inbox)

Accept == inbox' = Append(inbox, message)

\* Mutant: a send without an answer is tried once more.
Send_Retries ==
  /\ pc = "send"
  /\ \/ Accept /\ Ends("quit", "sent")
     \/ /\ inbox = <<>> /\ Accept
        /\ pc' = "send" /\ UNCHANGED <<settings, message, result>>
     \/ Ends("quit", "failed") /\ UNCHANGED inbox

\* send_message: accepted; refused; or accepted and the answer lost, which the
\* caller cannot tell from a refusal.
Send ==
  /\ pc = "send"
  /\ \/ Accept /\ Ends("quit", "sent")
     \/ Accept /\ Ends("quit", "failed")
     \/ Ends("quit", "failed") /\ UNCHANGED inbox

\* The finally clause: quit, else close; what they raise changes nothing.
Quit == pc = "quit" /\ Goes("done")

Step == LoadConfig \/ Connect \/ Login \/ Send \/ Quit

\* The caller is gone, after the call or in the middle of it.
ProcessEnds ==
  /\ pc # "idle"
  /\ pc' = "idle" /\ message' = "none" /\ result' = "none"
  /\ settings' = "unread" /\ inbox' = <<>>
=============================================================================
