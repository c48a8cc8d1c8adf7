---------------------------- MODULE EnableBanking ----------------------------
(***************************************************************************)
(* The connector of one bank (connectors/enable_banking.py): each call of  *)
(* fetch_transactions and fetch_balance, request by request, against a     *)
(* provider that settles movements, and a secret that is rewritten,        *)
(* meanwhile.                                                              *)
(*                                                                         *)
(* A call loads the signing credential, reads the session secret, looks    *)
(* the account of the session up, and then asks for pages of movements     *)
(* until one carries no continuation key, or for the balances once.        *)
(*                                                                         *)
(* The provider promises little: a page holds any records it has, pages    *)
(* may overlap, and once it sends no key every record that was settled     *)
(* when the call was made has been on some page.                           *)
(*                                                                         *)
(* What is abstracted: a record is a model value; KeyOf is its date,       *)
(* amount and description, Form what parsing makes of it.  Tokens, headers *)
(* and the wording of errors are left out.                                 *)
(***************************************************************************)
EXTENDS Naturals, Sequences

CONSTANTS
  Entry,       \* records the provider may ever list
  Key, KeyOf,  \* (booking date, amount, description), and that of each record
  InRange,     \* records whose booking date lies in the range asked for
  Form,        \* "good", "malformed" or "null" (a null where a value is used)
  MaxPages,    \* _MAX_PAGES
  Preference,  \* _BALANCE_PREFERENCE
  Payloads,    \* balance lists the provider may report
  Code         \* HTTP statuses other than 200

BalanceRecord == [type : STRING, usable : BOOLEAN]

ASSUME KeysAreGiven     == KeyOf \in [Entry -> Key] /\ InRange \subseteq Entry
ASSUME FormsAreGiven    == Form \in [Entry -> {"good", "malformed", "null"}]
ASSUME PagesAreBounded  == MaxPages \in Nat \ {0}
ASSUME CodesAreHttp     == Code \subseteq (100..599) \ {200}
ASSUME PreferenceIsOrder ==
  /\ Preference \in Seq(STRING)
  /\ \A r, q \in DOMAIN Preference : Preference[r] = Preference[q] => r = q
ASSUME PayloadsAreLists == \A p \in Payloads : p \in Seq(BalanceRecord)

VARIABLES
  status,    \* provider: what each record is by now
  secret,    \* what the session secret holds
  pc,        \* what the running call does next
  op,        \* which method was called
  held,      \* the session id the call read
  requests,  \* requests the call has sent
  pages,     \* pages the call has read
  served,    \* provider: records on the pages of this call
  due,       \* history: records settled when the call was made
  results,   \* keys collected so far
  reported,  \* the balance list that was answered
  chosen,    \* index in reported of the balance returned, 0 for None
  outcome    \* "none", "answer" or the class of the exception

callVars == <<pc, op, held, requests, pages, served, due, results, reported, chosen, outcome>>
vars == <<status, secret, callVars>>

Running == {"credential", "secret", "lookup", "page", "balances"}
AtRest  == {"idle", "done", "failed"}
Classes == {"ConnectorConfigError", "BankNotOnboardedError", "InvalidDateRangeError",
            "ReauthorizationRequiredError", "RateLimitExceededError",
            "EnableBankingAPIError", "PaginationLimitExceededError", "TypeError", "other"}
Secrets == {"session", "unconfigured"}

Answer == [code : {200}, body : {"ok", "expired", "not json"}]
            \cup [code : Code, body : {"error"}]

TypeOK ==
  /\ status \in [Entry -> {"absent", "PDNG", "BOOK"}]
  /\ secret \in Secrets
  /\ pc \in Running \cup AtRest
  /\ op \in {"none", "transactions", "balance"}
  /\ held \in Secrets \cup {"none"}
  /\ requests \in 0..MaxPages + 1
  /\ pages \in 0..MaxPages
  /\ served \subseteq Entry /\ due \subseteq Entry
  /\ results \subseteq Key
  /\ reported \in Payloads \cup {<<>>}
  /\ chosen \in 0..Len(reported)
  /\ outcome \in Classes \cup {"none", "answer"}

\* The records fetch_transactions is meant to return, and their keys.
Wanted(E) == {e \in E \cap InRange : Form[e] = "good"}
Keys(E)   == {KeyOf[e] : e \in E}
Booked    == {e \in Entry : status[e] = "BOOK"}
-----------------------------------------------------------------------------
(* What the connector makes of an answer. *)

\* Mutant: the body of a 200 is not looked at.
Verdict_StatusOnly(a) ==
  CASE a.code = 403 -> "ReauthorizationRequiredError"
    [] a.code = 429 -> "RateLimitExceededError"
    [] a.code = 200 -> "usable"
    [] OTHER        -> "EnableBankingAPIError"

\* _check_session_usable
Verdict(a) ==
  IF a.code = 403 \/ a.body = "expired" THEN "ReauthorizationRequiredError"
  ELSE CASE a.code = 429 -> "RateLimitExceededError"
         [] a.code = 200 -> "usable"
         [] OTHER        -> "EnableBankingAPIError"

\* Mutant: the last record of a type wins, not the first.
Select_LastOfType(list) ==
  LET usable == {i \in DOMAIN list : list[i].usable}
      OfType(t) == {i \in usable : list[i].type = t}
      ranks == {r \in DOMAIN Preference : OfType(Preference[r]) # {}}
  IN IF usable = {} THEN 0
     ELSE IF ranks = {} THEN CHOOSE i \in usable : \A j \in usable : i <= j
     ELSE LET best == CHOOSE r \in ranks : \A q \in ranks : r <= q
          IN CHOOSE i \in OfType(Preference[best]) : \A j \in OfType(Preference[best]) : j <= i

\* _parse_balance of each record, then _select_balance: the first record of the
\* most preferred type that is there, or else the first record of all.
Select(list) ==
  LET usable == {i \in DOMAIN list : list[i].usable}
      OfType(t) == {i \in usable : list[i].type = t}
      ranks == {r \in DOMAIN Preference : OfType(Preference[r]) # {}}
      First(I) == CHOOSE i \in I : \A j \in I : i <= j
  IN IF usable = {} THEN 0
     ELSE IF ranks = {} THEN First(usable) ELSE First(OfType(Preference[First(ranks)]))

\* Pages an answer may carry.  A body that only says "expired" has no records and
\* no continuation key, so it would read like an empty last page.
PagesIn(a) ==
  CASE a.body = "ok" ->
         {p \in [entries : SUBSET {e \in Entry : status[e] # "absent"}, more : BOOLEAN] :
            p.more \/ due \subseteq served \cup p.entries}
    [] a.body = "expired" -> {[entries |-> {}, more |-> FALSE]}
    [] OTHER -> {}
-----------------------------------------------------------------------------
Init ==
  /\ status \in [Entry -> {"absent", "PDNG", "BOOK"}]
  /\ secret \in Secrets
  /\ pc = "idle" /\ op = "none" /\ held = "none"
  /\ requests = 0 /\ pages = 0
  /\ served = {} /\ due = {} /\ results = {}
  /\ reported = <<>> /\ chosen = 0
  /\ outcome = "none"

(* The world around the call. *)

\* A record is announced as pending, or settled.
Settle(e) ==
  /\ \/ status[e] = "absent" /\ status' = [status EXCEPT ![e] = "PDNG"]
     \/ status[e] # "BOOK"   /\ status' = [status EXCEPT ![e] = "BOOK"]
  /\ UNCHANGED <<secret, callVars>>

RewriteSecret ==
  /\ secret' \in Secrets \ {secret}
  /\ UNCHANGED <<status, callVars>>

(* The call. *)

Called(method) ==
  /\ pc \in AtRest
  /\ op' = method
  /\ held' = "none"
  /\ requests' = 0 /\ pages' = 0
  /\ served' = {} /\ results' = {} /\ reported' = <<>> /\ chosen' = 0
  /\ due' = IF method = "transactions" THEN Booked ELSE {}
  /\ UNCHANGED <<status, secret>>

\* fetch_transactions(start_date, end_date); a range upside down is refused.
CallTransactions ==
  /\ Called("transactions")
  /\ \/ pc' = "credential" /\ outcome' = "none"
     \/ pc' = "failed" /\ outcome' = "InvalidDateRangeError"

CallBalance == Called("balance") /\ pc' = "credential" /\ outcome' = "none"

Goes(next) == pc' = next /\ UNCHANGED outcome
Raise(class) == pc' = "failed" /\ outcome' = class

\* _load_signing_credential: a file that cannot be read or decoded, JSON that is no
\* object, and a key of a kind it does not expect raise what it does not translate.
LoadCredential ==
  /\ pc = "credential"
  /\ Goes("secret") \/ Raise("ConnectorConfigError") \/ Raise("other")
  /\ UNCHANGED <<status, secret, op, held, requests, pages, served, due, results, reported, chosen>>

\* SecretStore().get(self._SESSION_ID_KEY)
ReadSecret ==
  /\ pc = "secret"
  /\ \/ held' = secret /\ Goes("lookup")
     \/ Raise("other") /\ UNCHANGED held
  /\ UNCHANGED <<status, secret, op, requests, pages, served, due, results, reported, chosen>>

\* A request goes out and no usable answer comes back.
Unanswered ==
  \/ \E a \in Answer : Verdict(a) # "usable" /\ Raise(Verdict(a))
  \/ Raise("other")   \* the connection failed, or a body that is not JSON

\* Mutant: the placeholder is sent like any session id.
LookUp_SendsPlaceholder ==
  /\ pc = "lookup"
  /\ requests' = requests + 1
  /\ \/ held = "session" /\ Goes(IF op = "balance" THEN "balances" ELSE "page")
     \/ Unanswered
  /\ UNCHANGED <<status, secret, op, held, pages, served, due, results, reported, chosen>>

\* _resolve_account_id.  A session without accounts is an API error.
LookUp ==
  /\ pc = "lookup"
  /\ IF held = "unconfigured"
       THEN Raise("BankNotOnboardedError") /\ UNCHANGED requests
       ELSE /\ requests' = requests + 1
            /\ \/ Goes(IF op = "balance" THEN "balances" ELSE "page")
               \/ Raise("EnableBankingAPIError")
               \/ Unanswered
  /\ UNCHANGED <<status, secret, op, held, pages, served, due, results, reported, chosen>>

Return == pc' = "done" /\ outcome' = "answer"

\* Mutant: the page limit ends the loop like a missing continuation key.
AfterPage_LimitIsEnd(more) ==
  IF more /\ pages + 1 < MaxPages THEN Goes("page") ELSE Return

\* Mutant: one page more than the limit is read.
AfterPage_OffByOne(more) ==
  IF ~more THEN Return
  ELSE IF pages < MaxPages THEN Goes("page") ELSE Raise("PaginationLimitExceededError")

\* The loop over pages: the next one, its end, or its limit.
AfterPage(more) ==
  IF ~more THEN Return
  ELSE IF pages + 1 < MaxPages THEN Goes("page") ELSE Raise("PaginationLimitExceededError")

\* Mutant: a page asked for in vain is asked for again.
FetchPage_Retries ==
  /\ pc = "page"
  /\ UNCHANGED <<status, secret, callVars>>

\* One turn of the loop: the records of the page that are settled, in range and
\* well formed are kept under their key; a null where a value is used raises.
FetchPage ==
  /\ pc = "page"
  /\ requests' = requests + 1
  /\ \/ \E a \in Answer : Verdict(a) = "usable" /\ \E p \in PagesIn(a) :
          LET booked == p.entries \cap Booked
              broken == \E e \in booked : Form[e] = "null"
          IN /\ pages' = pages + 1
             /\ served' = served \cup p.entries
             /\ IF broken
                  THEN Raise("TypeError") /\ UNCHANGED results
                  ELSE AfterPage(p.more) /\ results' = results \cup Keys(Wanted(booked))
     \/ Unanswered /\ UNCHANGED <<pages, served, results>>
  /\ UNCHANGED <<status, secret, op, held, due, reported, chosen>>

\* The request of fetch_balance.  A payload without a list counts as empty.
FetchBalances ==
  /\ pc = "balances"
  /\ requests' = requests + 1
  /\ \/ \E list \in Payloads \cup {<<>>} :
          /\ reported' = list
          /\ chosen' = Select(list)
          /\ Return
     \/ Unanswered /\ UNCHANGED <<reported, chosen>>
  /\ UNCHANGED <<status, secret, op, held, pages, served, due, results>>

Step == LoadCredential \/ ReadSecret \/ LookUp \/ FetchPage \/ FetchBalances

\* The caller is done with the answer, or the process is killed on the way.
ProcessEnds ==
  /\ pc # "idle"
  /\ pc' = "idle" /\ op' = "none" /\ held' = "none"
  /\ requests' = 0 /\ pages' = 0
  /\ served' = {} /\ due' = {} /\ results' = {}
  /\ reported' = <<>> /\ chosen' = 0
  /\ outcome' = "none"
  /\ UNCHANGED <<status, secret>>

Next ==
  \/ \E e \in Entry : Settle(e)
  \/ RewriteSecret
  \/ CallTransactions \/ CallBalance
  \/ Step
  \/ ProcessEnds

\* A call goes on: every request ends, by an answer or an exception.
Spec == Init /\ [][Next]_vars /\ WF_vars(Step)
-----------------------------------------------------------------------------
(* Safety *)

Returned(method) == pc = "done" /\ op = method

\* All or nothing (data-model.md:134-137 of feature 002): a list that is returned holds every
\* movement that was settled when the call was made, over however many pages and
\* overlaps, and nothing pending, out of range or malformed.
AnswerIsComplete ==
  Returned("transactions") =>
    /\ Keys(Wanted(due)) \subseteq results
    /\ results \subseteq Keys(Wanted(Booked))

\* A call the connector can refuse by itself spends nothing of the daily quota of
\* four requests: an inverted range, a broken credential, a bank not onboarded.
LocalErrorsSpendNothing ==
  /\ held = "unconfigured" => requests = 0
  /\ outcome \in {"ConnectorConfigError", "InvalidDateRangeError", "BankNotOnboardedError"}
       => requests = 0
  /\ outcome = "BankNotOnboardedError" => held = "unconfigured"

\* Record i of list is usable, no usable one is of a type that comes before its
\* own in the order of preference, and within its type it is the first.
MostTrusted(list, i) ==
  LET Rank(k) == IF \E r \in DOMAIN Preference : Preference[r] = list[k].type
                 THEN CHOOSE r \in DOMAIN Preference : Preference[r] = list[k].type
                 ELSE Len(Preference) + 1
      usable == {k \in DOMAIN list : list[k].usable}
  IN IF usable = {} THEN i = 0
     ELSE /\ i \in usable
          /\ \A k \in usable : Rank(i) < Rank(k) \/ (Rank(i) = Rank(k) /\ i <= k)

\* The balance that is returned is the most trusted of those reported, if any.
TrustedBalance == Returned("balance") => MostTrusted(reported, chosen)

\* FR-012 (spec.md:228-231 of feature 002): a record without its mandatory fields
\* is left out "instead of aborting the whole retrieval".
BadRecordsAreSkipped == outcome # "TypeError"

(* Refinement *)

Asking == op = "transactions" /\ pc \in Running \cup {"done"}

\* Requests, pages and errors are BankAnswers' one promise: an answer between what
\* was settled when asked and what is settled now, or none.
Promise == INSTANCE BankAnswers WITH
             settled <- Keys(Wanted(Booked)),
             due     <- IF Asking THEN Keys(Wanted(due)) ELSE {},
             state   <- IF ~Asking THEN "quiet" ELSE IF pc = "done" THEN "answered" ELSE "asked",
             answer  <- IF Asking /\ pc = "done" THEN results ELSE {}

KeepsItsPromise == Promise!Spec

(* Liveness *)

\* A call ends, even if the provider never stops sending continuation keys.
CallEnds == pc \in Running ~> pc \in AtRest
=============================================================================
