------------------------- MODULE EnableBankingProofs -------------------------
(***************************************************************************)
(* What the connector promises, proved for every set of records, every     *)
(* page limit and every list of balances: the two all-or-nothing           *)
(* properties, and that it implements BankAnswers.                         *)
(***************************************************************************)
EXTENDS EnableBanking, WellFoundedInduction, TLAPS

\* Where a call is says what it has read and sent.
Progress ==
  /\ pc \in Running => op \in {"transactions", "balance"} /\ outcome = "none"
  /\ pc \in {"credential", "secret"} => held = "none"
  /\ pc = "lookup" => held \in Secrets
  /\ pc \in {"credential", "secret", "lookup"} =>
       requests = 0 /\ pages = 0 /\ served = {} /\ results = {}
  /\ pc = "page" => op = "transactions" /\ held = "session" /\ requests = pages + 1
                    /\ pages < MaxPages
  /\ pc = "balances" => op = "balance" /\ held = "session" /\ requests = 1

\* What the pages of a call have brought: every wanted record among those that
\* were due, and nothing that is not wanted.
Collected ==
  Asking =>
    /\ due \subseteq Booked
    /\ results \subseteq Keys(Wanted(Booked))
    /\ Keys(Wanted(due \cap served)) \subseteq results
    /\ pc = "done" => due \subseteq served

ChosenIsSelected == Returned("balance") => chosen = Select(reported)

\* What the theorems need of every state, inductive as a whole.
IInv ==
  /\ TypeOK
  /\ Progress
  /\ LocalErrorsSpendNothing
  /\ Collected
  /\ ChosenIsSelected
-----------------------------------------------------------------------------
(* The choice of a balance. *)

LEMMA FirstExists ==
  ASSUME NEW I \in SUBSET Nat, I # {}
  PROVE  \E i \in I : \A j \in I : i <= j
<1> DEFINE less == {p \in Nat \X Nat : p[1] < p[2]}
<1>1. IsWellFoundedOn(less, Nat)
  BY NatLessThanWellFounded DEF OpToRel
<1>2. PICK i \in I : \A j \in I : ~(<<j, i>> \in less)
  BY <1>1, WFMin
<1>3. ASSUME NEW j \in I
      PROVE  i <= j
  <2>1. i \in Nat /\ j \in Nat
    OBVIOUS
  <2>2. <<j, i>> \in Nat \X Nat /\ <<j, i>>[1] = j /\ <<j, i>>[2] = i
    BY <2>1
  <2>3. ~(j < i)
    BY <1>2, <2>2
  <2> QED
    BY <2>1, <2>3
<1> QED
  BY <1>3

\* The rank of each type is its one place in the order of preference.
LEMMA SelectIsTrusted ==
  ASSUME NEW list \in Seq(BalanceRecord)
  PROVE  Select(list) \in 0..Len(list) /\ MostTrusted(list, Select(list))
<1> DEFINE usable == {i \in DOMAIN list : list[i].usable}
           OfType(t) == {i \in usable : list[i].type = t}
           ranks == {r \in DOMAIN Preference : OfType(Preference[r]) # {}}
           First(I) == CHOOSE i \in I : \A j \in I : i <= j
           Rank(i) == IF \E r \in DOMAIN Preference : Preference[r] = list[i].type
                      THEN CHOOSE r \in DOMAIN Preference : Preference[r] = list[i].type
                      ELSE Len(Preference) + 1
<1>1. DOMAIN list = 1..Len(list) /\ Len(list) \in Nat
  OBVIOUS
<1>2. DOMAIN Preference = 1..Len(Preference) /\ Len(Preference) \in Nat
  BY PreferenceIsOrder
<1>3. \A I \in SUBSET Nat : I # {} => First(I) \in I /\ \A j \in I : First(I) <= j
  BY FirstExists
<1>4. usable \in SUBSET Nat /\ ranks \in SUBSET Nat /\ \A t : OfType(t) \in SUBSET Nat
  BY <1>1, <1>2
<1>5. Select(list) = IF usable = {} THEN 0
                     ELSE IF ranks = {} THEN First(usable)
                     ELSE First(OfType(Preference[First(ranks)]))
  BY DEF Select
<1>6. \A i \in usable, r \in DOMAIN Preference : Preference[r] = list[i].type => Rank(i) = r
  BY PreferenceIsOrder
<1>7. \A i \in usable : (\A r \in DOMAIN Preference : Preference[r] # list[i].type)
                           => Rank(i) = Len(Preference) + 1
  OBVIOUS
<1>8. ASSUME usable = {}
      PROVE  Select(list) = 0 /\ Select(list) \in 0..Len(list)
  BY <1>1, <1>5, <1>8
<1>9. ASSUME usable # {} /\ ranks = {}
      PROVE  /\ Select(list) \in 0..Len(list) /\ Select(list) \in usable
             /\ \A i \in usable : \/ Rank(Select(list)) < Rank(i)
                                  \/ Rank(Select(list)) = Rank(i) /\ Select(list) <= i
  <2>1. Select(list) \in usable /\ \A j \in usable : Select(list) <= j
    BY <1>3, <1>4, <1>5, <1>9
  <2>2. \A i \in usable : Rank(i) = Len(Preference) + 1
    <3> SUFFICES ASSUME NEW i \in usable, NEW r \in DOMAIN Preference, Preference[r] = list[i].type
                 PROVE  FALSE
      BY <1>7
    <3>1. i \in OfType(Preference[r])
      OBVIOUS
    <3> QED
      BY <1>9, <3>1
  <2>3. Select(list) \in 0..Len(list)
    BY <1>1, <2>1
  <2> QED
    BY <1>9, <2>1, <2>2, <2>3
<1>10. ASSUME usable # {} /\ ranks # {}
      PROVE  /\ Select(list) \in 0..Len(list) /\ Select(list) \in usable
             /\ \A i \in usable : \/ Rank(Select(list)) < Rank(i)
                                  \/ Rank(Select(list)) = Rank(i) /\ Select(list) <= i
  <2> DEFINE best == First(ranks)
  <2>1. best \in ranks /\ \A r \in ranks : best <= r
    BY <1>3, <1>4, <1>10
  <2>2. OfType(Preference[best]) # {}
    BY <2>1
  <2>3. /\ Select(list) \in OfType(Preference[best])
        /\ \A j \in OfType(Preference[best]) : Select(list) <= j
    BY <1>3, <1>4, <1>5, <1>10, <2>2
  <2>4. Select(list) \in usable /\ Rank(Select(list)) = best
    BY <1>6, <2>1, <2>3
  <2>5. ASSUME NEW i \in usable
        PROVE  \/ best < Rank(i)
               \/ best = Rank(i) /\ Select(list) <= i
    <3>1. CASE \A r \in DOMAIN Preference : Preference[r] # list[i].type
      <4>1. best \in 1..Len(Preference)
        BY <1>2, <2>1
      <4> QED
        BY <1>2, <1>7, <3>1, <4>1
    <3>2. ASSUME NEW r \in DOMAIN Preference, Preference[r] = list[i].type
          PROVE  \/ best < Rank(i)
                 \/ best = Rank(i) /\ Select(list) <= i
      <4>1. Rank(i) = r /\ i \in OfType(Preference[r])
        BY <1>6, <3>2
      <4>2. r \in ranks /\ best <= r /\ r \in Nat /\ best \in Nat
        BY <1>4, <2>1, <4>1
      <4>3. CASE best = r
        BY <2>3, <4>1, <4>3
      <4>4. CASE best < r
        BY <4>1, <4>4
      <4> QED
        BY <4>2, <4>3, <4>4
    <3> QED
      BY <3>1, <3>2
  <2>6. Select(list) \in 0..Len(list)
    BY <1>1, <2>4
  <2> QED
    BY <1>10, <2>4, <2>5, <2>6
<1> HIDE DEF Rank, usable
<1>11. IF usable = {} THEN Select(list) = 0
       ELSE /\ Select(list) \in usable
            /\ \A i \in usable : \/ Rank(Select(list)) < Rank(i)
                                 \/ Rank(Select(list)) = Rank(i) /\ Select(list) <= i
  BY <1>8, <1>9, <1>10
<1>12. MostTrusted(list, Select(list))
  BY <1>11 DEF MostTrusted, Rank, usable
<1> QED
  BY <1>8, <1>9, <1>10, <1>12
-----------------------------------------------------------------------------
(* Records and their keys. *)

LEMMA KeysFacts ==
  /\ \A E \in SUBSET Entry : Keys(Wanted(E)) \in SUBSET Key
  /\ \A E, F : E \subseteq F => Keys(Wanted(E)) \subseteq Keys(Wanted(F))
  /\ \A E, F : Keys(Wanted(E \cup F)) = Keys(Wanted(E)) \cup Keys(Wanted(F))
  /\ Keys(Wanted({})) = {}
BY KeysAreGiven DEF Keys, Wanted

LEMMA PayloadFacts == \A list \in Payloads \cup {<<>>} : list \in Seq(BalanceRecord)
<1>1. <<>> \in Seq(BalanceRecord)
  OBVIOUS
<1> QED
  BY <1>1, PayloadsAreLists, Zenon

\* A request without a usable answer ends the call with a class of its own, and
\* none of those that say that no request was made.
LEMMA UnansweredFacts ==
  ASSUME Unanswered
  PROVE  /\ pc' = "failed" /\ outcome' \in Classes
         /\ outcome' \notin {"ConnectorConfigError", "InvalidDateRangeError",
                             "BankNotOnboardedError"}
<1>1. \A a : Verdict(a) \in {"usable", "ReauthorizationRequiredError", "RateLimitExceededError",
                             "EnableBankingAPIError"}
  BY DEF Verdict
<1> QED
  BY <1>1 DEF Unanswered, Raise, Classes

\* What a usable page may be.
LEMMA PagesFacts ==
  ASSUME NEW a \in Answer, Verdict(a) = "usable", NEW p \in PagesIn(a)
  PROVE  /\ p.entries \in SUBSET Entry /\ p.more \in BOOLEAN
         /\ ~p.more => due \subseteq served \cup p.entries
<1>1. a.body # "expired"
  BY DEF Verdict
<1>2. a.body = "ok"
  BY <1>1 DEF PagesIn
<1> QED
  BY <1>2 DEF PagesIn
-----------------------------------------------------------------------------
(* One lemma per action. *)

LEMMA InitIInv == Init => IInv
<1> SUFFICES ASSUME Init PROVE IInv
  OBVIOUS
<1>1. TypeOK
  BY PagesAreBounded DEF Init, TypeOK, AtRest
<1> QED
  BY <1>1 DEF Init, IInv, Progress, LocalErrorsSpendNothing, Collected, ChosenIsSelected,
              Asking, Running, Returned

LEMMA SettleKeeps ==
  ASSUME IInv, NEW e \in Entry, Settle(e)
  PROVE  IInv' /\ Booked \subseteq Booked'
<1>1. status' \in [Entry -> {"absent", "PDNG", "BOOK"}] /\ Booked \subseteq Booked'
  BY DEF Settle, IInv, TypeOK, Booked
<1>2. UNCHANGED <<secret, callVars>>
  BY DEF Settle
<1>3. TypeOK'
  BY <1>1, <1>2 DEF IInv, TypeOK, callVars
<1>4. Collected'
  BY <1>1, <1>2, KeysFacts DEF IInv, Collected, callVars, Asking
<1> QED
  BY <1>1, <1>2, <1>3, <1>4 DEF IInv, Progress, LocalErrorsSpendNothing, ChosenIsSelected,
                                Returned, callVars

LEMMA RewriteSecretKeeps == IInv /\ RewriteSecret => IInv'
BY DEF RewriteSecret, IInv, TypeOK, Progress, LocalErrorsSpendNothing, Collected,
       ChosenIsSelected, Returned, callVars, Asking, Booked

LEMMA CalledKeeps ==
  ASSUME IInv, NEW method \in {"transactions", "balance"}, Called(method),
         \/ pc' = "credential" /\ outcome' = "none"
         \/ pc' = "failed" /\ outcome' = "InvalidDateRangeError"
  PROVE  IInv'
<1>1. due' \subseteq Booked /\ due' \subseteq Entry /\ Booked' = Booked
  BY DEF Called, Booked
<1>2. TypeOK'
  BY <1>1, PagesAreBounded DEF Called, IInv, TypeOK, Running, AtRest, Classes
<1>3. Collected'
  BY <1>1, KeysFacts DEF Called, Collected, Asking
<1> QED
  BY <1>2, <1>3 DEF Called, IInv, Progress, LocalErrorsSpendNothing, ChosenIsSelected,
                    Returned, Running

LEMMA LoadCredentialKeeps == IInv /\ LoadCredential => IInv'
<1> SUFFICES ASSUME IInv, LoadCredential PROVE IInv'
  OBVIOUS
<1>1. TypeOK'
  BY DEF LoadCredential, Goes, Raise, IInv, TypeOK, Running, AtRest, Classes
<1>2. Collected'
  BY DEF LoadCredential, Goes, Raise, IInv, Collected, Asking, Running, Booked
<1> QED
  BY <1>1, <1>2 DEF LoadCredential, Goes, Raise, IInv, Progress, LocalErrorsSpendNothing,
                    ChosenIsSelected, Returned, Running

LEMMA ReadSecretKeeps == IInv /\ ReadSecret => IInv'
<1> SUFFICES ASSUME IInv, ReadSecret PROVE IInv'
  OBVIOUS
<1>1. TypeOK'
  BY DEF ReadSecret, Goes, Raise, IInv, TypeOK, Running, AtRest, Classes
<1>2. Collected'
  BY DEF ReadSecret, Goes, Raise, IInv, Collected, Asking, Running, Booked
<1> QED
  BY <1>1, <1>2 DEF ReadSecret, Goes, Raise, IInv, TypeOK, Progress, LocalErrorsSpendNothing,
                    ChosenIsSelected, Returned, Running

LEMMA LookUpKeeps == IInv /\ LookUp => IInv'
<1> SUFFICES ASSUME IInv, LookUp PROVE IInv'
  OBVIOUS
<1>1. /\ pc = "lookup" /\ held \in Secrets /\ requests = 0 /\ pages = 0
      /\ op \in {"transactions", "balance"} /\ outcome = "none"
  BY DEF LookUp, IInv, Progress, Running
<1>2. UNCHANGED <<status, secret, op, held, pages, served, due, results, reported, chosen>>
  BY DEF LookUp
<1>3. CASE held = "unconfigured" /\ Raise("BankNotOnboardedError") /\ UNCHANGED requests
  <2>1. TypeOK'
    BY <1>2, <1>3 DEF Raise, IInv, TypeOK, AtRest, Classes
  <2> QED
    BY <1>1, <1>2, <1>3, <2>1 DEF Raise, IInv, Progress, LocalErrorsSpendNothing, Collected,
       ChosenIsSelected, Returned, Running, Asking
<1>4. CASE /\ held = "session" /\ requests' = 1
           /\ pc' = "failed" /\ outcome' \in Classes
           /\ outcome' \notin {"ConnectorConfigError", "InvalidDateRangeError",
                               "BankNotOnboardedError"}
  <2>1. TypeOK'
    BY <1>2, <1>4, PagesAreBounded DEF IInv, TypeOK, AtRest
  <2> QED
    BY <1>1, <1>2, <1>4, <2>1 DEF IInv, Progress, LocalErrorsSpendNothing, Collected,
       ChosenIsSelected, Returned, Running, Asking
<1>5. CASE /\ held = "session" /\ requests' = 1
           /\ Goes(IF op = "balance" THEN "balances" ELSE "page")
  <2>1. TypeOK'
    BY <1>1, <1>2, <1>5, PagesAreBounded DEF Goes, IInv, TypeOK, Running
  <2>2. Collected'
    BY <1>1, <1>2, <1>5 DEF Goes, IInv, Collected, Asking, Running, Booked
  <2>3. Progress'
    BY <1>1, <1>2, <1>5, PagesAreBounded DEF Goes, Progress, Running
  <2> QED
    BY <1>1, <1>2, <1>5, <2>1, <2>2, <2>3 DEF Goes, IInv, LocalErrorsSpendNothing,
       ChosenIsSelected, Returned
<1>6. \/ held = "unconfigured" /\ Raise("BankNotOnboardedError") /\ UNCHANGED requests
      \/ /\ held = "session" /\ requests' = 1
         /\ \/ Goes(IF op = "balance" THEN "balances" ELSE "page")
            \/ Raise("EnableBankingAPIError")
            \/ Unanswered
  BY <1>1 DEF LookUp, Secrets
<1> QED
  BY <1>3, <1>4, <1>5, <1>6, UnansweredFacts DEF Raise, Classes

\* The turn of the loop that reads a page is where a list could come back short.
LEMMA FetchPageKeeps == IInv /\ FetchPage => IInv'
<1> SUFFICES ASSUME IInv, FetchPage PROVE IInv'
  OBVIOUS
<1>1. /\ pc = "page" /\ held = "session" /\ requests = pages + 1 /\ pages < MaxPages
      /\ op = "transactions" /\ outcome = "none" /\ Asking
  BY DEF FetchPage, IInv, Progress, Running, Asking
<1>2. /\ requests' = requests + 1 /\ Booked' = Booked
      /\ UNCHANGED <<status, secret, op, held, due, reported, chosen>>
  BY DEF FetchPage, Booked
<1>3. pages \in Nat /\ MaxPages \in Nat
  BY PagesAreBounded DEF IInv, TypeOK
<1>4. CASE Unanswered /\ UNCHANGED <<pages, served, results>>
  <2>1. TypeOK'
    BY <1>1, <1>2, <1>3, <1>4, UnansweredFacts DEF IInv, TypeOK, AtRest
  <2> QED
    BY <1>1, <1>2, <1>4, <2>1, UnansweredFacts DEF IInv, Progress, LocalErrorsSpendNothing,
       Collected, ChosenIsSelected, Returned, Running, Asking
<1>5. ASSUME NEW a \in Answer, Verdict(a) = "usable", NEW p \in PagesIn(a),
             pages' = pages + 1, served' = served \cup p.entries,
             Raise("TypeError") /\ UNCHANGED results
      PROVE  IInv'
  <2>1. p.entries \subseteq Entry
    BY <1>5, PagesFacts
  <2>2. TypeOK'
    BY <1>1, <1>2, <1>3, <1>5, <2>1 DEF Raise, IInv, TypeOK, AtRest, Classes
  <2> QED
    BY <1>1, <1>2, <1>5, <2>2 DEF Raise, IInv, Progress, LocalErrorsSpendNothing, Collected,
       ChosenIsSelected, Returned, Running, Asking
<1>6. ASSUME NEW a \in Answer, Verdict(a) = "usable", NEW p \in PagesIn(a),
             pages' = pages + 1, served' = served \cup p.entries,
             AfterPage(p.more),
             results' = results \cup Keys(Wanted(p.entries \cap Booked))
      PROVE  IInv'
  <2>1. p.entries \subseteq Entry /\ (~p.more => due \subseteq served')
    BY <1>6, PagesFacts
  <2>2. \/ pc' = "page" /\ outcome' = outcome /\ pages + 1 < MaxPages
        \/ pc' = "done" /\ outcome' = "answer" /\ ~p.more
        \/ pc' = "failed" /\ outcome' = "PaginationLimitExceededError"
    BY <1>6 DEF AfterPage, Return, Goes, Raise
  <2>3. results' \subseteq Key
    BY <1>6, <2>1, KeysFacts DEF IInv, TypeOK
  <2>4. TypeOK'
    <3>1. pages' \in 0..MaxPages /\ requests' \in 0..MaxPages + 1
      BY <1>1, <1>2, <1>3, <1>6
    <3>2. served' \subseteq Entry
      BY <1>6, <2>1 DEF IInv, TypeOK
    <3> QED
      BY <1>2, <2>2, <2>3, <3>1, <3>2 DEF IInv, TypeOK, Running, AtRest, Classes
  <2>5. /\ due \subseteq Booked /\ results \subseteq Keys(Wanted(Booked))
        /\ Keys(Wanted(due \cap served)) \subseteq results
    BY <1>1 DEF IInv, Collected
  <2>6. results' \subseteq Keys(Wanted(Booked))
    <3>1. Keys(Wanted(p.entries \cap Booked)) \subseteq Keys(Wanted(Booked))
      BY KeysFacts
    <3> QED
      BY <1>6, <2>5, <3>1
  <2>7. Keys(Wanted(due \cap served')) \subseteq results'
    <3>1. due \cap served' \subseteq (due \cap served) \cup (p.entries \cap Booked)
      BY <1>6, <2>5
    <3>2. Keys(Wanted(due \cap served'))
            \subseteq Keys(Wanted(due \cap served)) \cup Keys(Wanted(p.entries \cap Booked))
      <4> DEFINE F == due \cap served
                 G == p.entries \cap Booked
      <4>1. Keys(Wanted(due \cap served')) \subseteq Keys(Wanted(F \cup G))
        BY <3>1, KeysFacts
      <4>2. Keys(Wanted(F \cup G)) = Keys(Wanted(F)) \cup Keys(Wanted(G))
        BY KeysFacts
      <4> QED
        BY <4>1, <4>2
    <3> QED
      BY <1>6, <2>5, <3>2
  <2>8. Collected'
    BY <1>2, <2>1, <2>2, <2>5, <2>6, <2>7 DEF Collected
  <2>9. Progress'
    BY <1>1, <1>2, <1>3, <1>6, <2>2 DEF Progress, Running
  <2> QED
    BY <1>1, <1>2, <2>2, <2>4, <2>8, <2>9 DEF IInv, LocalErrorsSpendNothing,
       ChosenIsSelected, Returned
<1> QED
  BY <1>4, <1>5, <1>6 DEF FetchPage

LEMMA FetchBalancesKeeps == IInv /\ FetchBalances => IInv'
<1> SUFFICES ASSUME IInv, FetchBalances PROVE IInv'
  OBVIOUS
<1>1. pc = "balances" /\ op = "balance" /\ held = "session" /\ requests = 1 /\ outcome = "none"
  BY DEF FetchBalances, IInv, Progress, Running
<1>2. /\ requests' = 2
      /\ UNCHANGED <<status, secret, op, held, pages, served, due, results>>
  BY <1>1 DEF FetchBalances
<1>3. requests' \in 0..MaxPages + 1
  BY <1>2, PagesAreBounded
<1>4. CASE Unanswered /\ UNCHANGED <<reported, chosen>>
  <2>1. TypeOK'
    BY <1>2, <1>3, <1>4, UnansweredFacts DEF IInv, TypeOK, AtRest
  <2> QED
    BY <1>1, <1>2, <1>4, <2>1, UnansweredFacts DEF IInv, Progress, LocalErrorsSpendNothing,
       Collected, ChosenIsSelected, Returned, Running, Asking
<1>5. ASSUME NEW list \in Payloads \cup {<<>>}, reported' = list, chosen' = Select(list), Return
      PROVE  IInv'
  <2>1. chosen' \in 0..Len(reported')
    BY <1>5, PayloadFacts, SelectIsTrusted
  <2>2. TypeOK'
    BY <1>2, <1>3, <1>5, <2>1 DEF Return, IInv, TypeOK, AtRest
  <2> QED
    BY <1>1, <1>2, <1>5, <2>2 DEF Return, IInv, Progress, LocalErrorsSpendNothing,
       Collected, ChosenIsSelected, Returned, Running, Asking
<1> QED
  BY <1>4, <1>5 DEF FetchBalances

LEMMA ProcessEndsKeeps == IInv /\ ProcessEnds => IInv'
<1> SUFFICES ASSUME IInv, ProcessEnds PROVE IInv'
  OBVIOUS
<1>1. TypeOK'
  BY PagesAreBounded DEF ProcessEnds, IInv, TypeOK, AtRest
<1> QED
  BY <1>1 DEF ProcessEnds, IInv, Progress, LocalErrorsSpendNothing, Collected,
              ChosenIsSelected, Asking, Running, Returned

LEMMA NextIInv == IInv /\ [Next]_vars => IInv'
<1> SUFFICES ASSUME IInv, [Next]_vars PROVE IInv'
  OBVIOUS
<1>1. CASE UNCHANGED vars
  BY <1>1 DEF vars, callVars, IInv, TypeOK, Progress, LocalErrorsSpendNothing, Collected,
              ChosenIsSelected, Returned, Asking, Booked
<1>2. CASE CallTransactions \/ CallBalance
  BY <1>2, CalledKeeps DEF CallTransactions, CallBalance
<1>3. CASE Step
  BY <1>3, LoadCredentialKeeps, ReadSecretKeeps, LookUpKeeps, FetchPageKeeps,
     FetchBalancesKeeps DEF Step
<1> QED
  BY <1>1, <1>2, <1>3, SettleKeeps, RewriteSecretKeeps, ProcessEndsKeeps DEF Next
-----------------------------------------------------------------------------
(* The theorems. *)

\* Every reachable state satisfies the inductive invariant.
THEOREM InductiveInvariant == Spec => []IInv
BY InitIInv, NextIInv, PTL DEF Spec

\* The state of a call is always well formed; in particular no call sends more
\* requests than the page limit and the lookup of the account.
THEOREM TypeCorrect == Spec => []TypeOK
BY InductiveInvariant, PTL DEF IInv

\* All or nothing: a list that is returned lacks nothing that was settled when the
\* call was made, and holds nothing that is not settled, in range and well formed.
THEOREM AnswersAreComplete == Spec => []AnswerIsComplete
<1>1. IInv => AnswerIsComplete
  <2> SUFFICES ASSUME IInv, Returned("transactions")
               PROVE  /\ Keys(Wanted(due)) \subseteq results
                      /\ results \subseteq Keys(Wanted(Booked))
    BY DEF AnswerIsComplete
  <2>1. /\ due \subseteq served /\ results \subseteq Keys(Wanted(Booked))
        /\ Keys(Wanted(due \cap served)) \subseteq results
    BY DEF IInv, Collected, Returned, Asking
  <2>2. due \cap served = due
    BY <2>1
  <2> QED
    BY <2>1, <2>2
<1> QED
  BY <1>1, InductiveInvariant, PTL

\* What the connector can refuse by itself never costs a request.
THEOREM LocalErrorsAreFree == Spec => []LocalErrorsSpendNothing
BY InductiveInvariant, PTL DEF IInv

\* The balance that is returned is the most trusted of any list of records.
THEOREM BalancesAreTrusted == Spec => []TrustedBalance
<1>1. IInv => TrustedBalance
  <2> SUFFICES ASSUME IInv, Returned("balance") PROVE TrustedBalance
    BY DEF TrustedBalance
  <2>1. reported \in Seq(BalanceRecord) /\ chosen = Select(reported)
    BY PayloadFacts DEF IInv, TypeOK, ChosenIsSelected
  <2> QED
    BY <2>1, SelectIsTrusted DEF TrustedBalance
<1> QED
  BY <1>1, InductiveInvariant, PTL
-----------------------------------------------------------------------------
(* The connector implements BankAnswers: what a caller sees of a call. *)

\* The state of the abstract caller, as Promise maps it.
Settled  == Keys(Wanted(Booked))
Due      == IF Asking THEN Keys(Wanted(due)) ELSE {}
State    == IF ~Asking THEN "quiet" ELSE IF pc = "done" THEN "answered" ELSE "asked"
TheirAnswer == IF Asking /\ pc = "done" THEN results ELSE {}

\* A step after which nobody asks is a drop, or nothing at all.
LEMMA NobodyAsks ==
  ASSUME UNCHANGED status, ~Asking'
  PROVE  [Promise!Next]_(Promise!vars)
<1>1. /\ Settled' = Settled /\ Due' = {} /\ State' = "quiet" /\ TheirAnswer' = {}
  BY DEF Settled, Booked, Due, State, TheirAnswer
<1>2. CASE Asking
  <2>1. State # "quiet"
    BY <1>2 DEF State
  <2>2. Promise!Drop
    BY <1>1, <2>1 DEF Promise!Drop, Settled, Due, State, TheirAnswer
  <2> QED
    BY <2>2 DEF Promise!Next
<1>3. CASE ~Asking
  <2>1. Due = {} /\ State = "quiet" /\ TheirAnswer = {}
    BY <1>3 DEF Due, State, TheirAnswer
  <2> QED
    BY <1>1, <2>1 DEF Promise!vars, Settled, Due, State, TheirAnswer
<1> QED
  BY <1>2, <1>3

\* A step in the middle of a call shows nothing.
LEMMA StillAsking ==
  ASSUME UNCHANGED <<status, op, due>>, pc \in Running, pc' \in Running
  PROVE  UNCHANGED Promise!vars
<1>1. Asking' = Asking /\ pc # "done" /\ pc' # "done"
  BY DEF Asking, Running
<1> QED
  BY <1>1 DEF Promise!vars, Settled, Booked, Due, State, TheirAnswer

LEMMA InitImplements == Init => Promise!Init
<1> SUFFICES ASSUME Init PROVE Promise!Init
  OBVIOUS
<1>1. ~Asking
  BY DEF Init, Asking
<1>2. Settled \in SUBSET Key
  BY KeysFacts DEF Settled, Booked
<1> QED
  BY <1>1, <1>2 DEF Promise!Init, Settled

LEMMA SettleImplements ==
  ASSUME IInv, NEW e \in Entry, Settle(e)
  PROVE  [Promise!Next]_(Promise!vars)
<1>1. Settled \subseteq Settled' /\ Settled' \in SUBSET Key
  BY SettleKeeps, KeysFacts DEF Settled, Booked
<1>2. UNCHANGED <<Due, State, TheirAnswer>>
  BY DEF Settle, callVars, Due, State, TheirAnswer, Asking
<1>3. Settled' = Settled \cup Settled'
  BY <1>1
<1>4. Promise!Settle
  BY <1>1, <1>2, <1>3 DEF Promise!Settle, Settled, Due, State, TheirAnswer
<1> QED
  BY <1>4 DEF Promise!Next

LEMMA CallImplements ==
  ASSUME IInv, CallTransactions
  PROVE  [Promise!Next]_(Promise!vars)
<1>1. CASE pc' = "failed"
  BY <1>1, NobodyAsks DEF CallTransactions, Called, Asking, Running
<1>2. CASE pc' = "credential"
  <2>1. /\ Asking' /\ pc' # "done" /\ due' = Booked /\ Settled' = Settled
        /\ pc \in AtRest
    BY <1>2 DEF CallTransactions, Called, Asking, Running, Settled, Booked
  <2>2. State # "asked"
    BY <2>1 DEF State, Asking, AtRest, Running
  <2>3. Due' = Settled /\ State' = "asked" /\ TheirAnswer' = {}
    BY <2>1 DEF Due, State, TheirAnswer, Settled
  <2>4. Promise!Ask
    BY <2>1, <2>2, <2>3 DEF Promise!Ask, Settled, Due, State, TheirAnswer
  <2> QED
    BY <2>4 DEF Promise!Next
<1> QED
  BY <1>1, <1>2 DEF CallTransactions

\* The only step that answers is the page without a continuation key.
LEMMA FetchPageImplements ==
  ASSUME IInv, FetchPage
  PROVE  [Promise!Next]_(Promise!vars)
<1>1. /\ pc = "page" /\ pc \in Running /\ op = "transactions"
      /\ UNCHANGED <<status, op, due>>
  BY DEF FetchPage, IInv, Progress, Running
<1>2. pc' \in {"page", "done", "failed"}
  BY <1>1, UnansweredFacts DEF FetchPage, AfterPage, Return, Goes, Raise
<1>3. CASE pc' = "page"
  BY <1>1, <1>3, StillAsking
<1>4. CASE pc' = "failed"
  BY <1>1, <1>4, NobodyAsks DEF Asking, Running
<1>5. CASE pc' = "done"
  <2>1. Asking /\ Asking' /\ Settled' = Settled /\ Booked' = Booked
    BY <1>1, <1>5 DEF Asking, Settled, Booked
  <2>2. Collected'
    BY FetchPageKeeps DEF IInv
  <2>3. due' \cap served' = due
    BY <1>1, <1>5, <2>1, <2>2 DEF Collected
  <2>4. Keys(Wanted(due)) \subseteq results' /\ results' \subseteq Settled
    BY <2>1, <2>2, <2>3 DEF Collected, Settled
  <2>5. /\ State = "asked" /\ State' = "answered" /\ Due = Keys(Wanted(due))
        /\ Due' = Due /\ TheirAnswer' = results'
    BY <1>1, <1>5, <2>1 DEF State, Due, TheirAnswer
  <2>6. Promise!Return
    BY <2>1, <2>4, <2>5 DEF Promise!Return, Settled, Due, State, TheirAnswer
  <2> QED
    BY <2>6 DEF Promise!Next
<1> QED
  BY <1>2, <1>3, <1>4, <1>5

LEMMA NextImplements ==
  ASSUME IInv, [Next]_vars
  PROVE  [Promise!Next]_(Promise!vars)
<1>1. CASE UNCHANGED vars
  <2>1. UNCHANGED Promise!vars
    BY <1>1 DEF Promise!vars, vars, callVars, Settled, Booked, Due, State, TheirAnswer, Asking
  <2> QED
    BY <2>1
<1>2. CASE RewriteSecret
  <2>1. UNCHANGED Promise!vars
    BY <1>2 DEF Promise!vars, RewriteSecret, callVars, Settled, Booked, Due, State,
                TheirAnswer, Asking
  <2> QED
    BY <2>1
<1>3. CASE CallBalance
  BY <1>3, NobodyAsks DEF CallBalance, Called, Asking
<1>4. CASE LoadCredential \/ ReadSecret \/ LookUp
  <2>1. pc \in Running /\ UNCHANGED <<status, op, due>>
    BY <1>4 DEF LoadCredential, ReadSecret, LookUp, Running
  <2>2. pc' \in {"secret", "lookup", "page", "balances", "failed"}
    BY <1>4, UnansweredFacts DEF LoadCredential, ReadSecret, LookUp, Goes, Raise
  <2>3. CASE pc' = "failed"
    BY <2>1, <2>3, NobodyAsks DEF Asking, Running
  <2>4. CASE pc' # "failed"
    BY <2>1, <2>2, <2>4, StillAsking DEF Running
  <2> QED
    BY <2>3, <2>4
<1>5. CASE FetchBalances
  <2>1. op' = "balance" /\ UNCHANGED status
    BY <1>5 DEF FetchBalances, IInv, Progress
  <2> QED
    BY <2>1, NobodyAsks DEF Asking
<1>6. CASE ProcessEnds
  BY <1>6, NobodyAsks DEF ProcessEnds, Asking
<1> QED
  BY <1>1, <1>2, <1>3, <1>4, <1>5, <1>6, SettleImplements, CallImplements,
     FetchPageImplements DEF Next, Step

\* However many pages it takes and whatever fails, a caller of fetch_transactions
\* sees nothing but BankAnswers: no answer, or a complete one.
THEOREM ConnectorKeepsItsPromise == Spec => KeepsItsPromise
<1>1. IInv /\ [Next]_vars => [Promise!Next]_(Promise!vars)
  BY NextImplements
<1> QED
  BY <1>1, InitImplements, InductiveInvariant, PTL DEF Spec, KeepsItsPromise, Promise!Spec
=============================================================================
