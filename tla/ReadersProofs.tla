---------------------------- MODULE ReadersProofs ---------------------------
(***************************************************************************)
(* Proofs about Readers, for any number of tenants, terms, requests,       *)
(* moderators, comments and readers, and any lifetime of the cache.        *)
(***************************************************************************)
EXTENDS Readers, FiniteSetTheorems, TLAPS

USE ReadersAssumption

-----------------------------------------------------------------------------
(* Types *)

LEMMA ReadersInitTyped == Init => TypeOK
  <1>1. NoCheck \in Check /\ NoEdit \in Edit /\ NotCached \in Cached
    BY DEF NoCheck, Check, NoEdit, Edit, NotCached, Cached, Time
  <1> QED
    BY <1>1 DEF Init, TypeOK

\* What a check becomes.
LEMMA CheckTyped ==
  ASSUME NEW k \in Check, NEW s \in Scopes, NEW entries \in SUBSET Terms
  PROVE  /\ NoCheck \in Check
         /\ [NoCheck EXCEPT !.pc = "fetch", !.scope = s] \in Check
         /\ [k EXCEPT !.pc = "store", !.entries = entries] \in Check
  BY DEF Check, NoCheck

\* What an edit becomes.
LEMMA EditTyped ==
  ASSUME NEW k \in Edit, NEW s \in Scopes, NEW changed \in SUBSET Terms
  PROVE  /\ NoEdit \in Edit
         /\ [pc |-> "answer", scope |-> s, changed |-> changed] \in Edit
         /\ [k EXCEPT !.pc = "flush"] \in Edit
  BY DEF Edit, NoEdit

\* A check and an edit under way are about a scope.
ScopesKnown ==
    /\ \A r \in Requests : check[r].pc # "idle" => check[r].scope \in Scopes
    /\ \A e \in Editors : edit[e].pc # "idle" => edit[e].scope \in Scopes

CheckStep == \E r \in Requests :
    (\E s \in Scopes : Miss(r, s)) \/ Fetch(r) \/ FetchFails(r) \/ Store(r)

EditStep == \E e \in Editors :
    \/ \E s \in Scopes, t \in Terms : Add(e, s, t) \/ Delete(e, s, t)
    \/ \E s \in Scopes, list \in SUBSET Terms : Import(e, s, list)
    \/ EditAnswered(e) \/ EditFails(e) \/ InvalidateBlockedTermsCache(e)

ReactionStep ==
    \/ \E c \in Comments, u \in Readers : Toggle(c, u)
    \/ \E c \in Comments : InsertComment(c) \/ DeleteComment(c)

LEMMA CheckStepTyped ==
  ASSUME TypeOK, ScopesKnown, CheckStep
  PROVE  TypeOK' /\ ScopesKnown'
  <1> PICK r \in Requests :
        (\E s \in Scopes : Miss(r, s)) \/ Fetch(r) \/ FetchFails(r) \/ Store(r)
    BY DEF CheckStep
  <1>1. check[r] \in Check /\ NoCheck.pc = "idle"
    BY DEF TypeOK, NoCheck
  <1>2. ASSUME NEW s \in Scopes, Miss(r, s) PROVE TypeOK' /\ ScopesKnown'
    <2> DEFINE next == [NoCheck EXCEPT !.pc = "fetch", !.scope = s]
    <2>1. next \in Check /\ next.scope = s
      BY <1>1, CheckTyped DEF NoCheck
    <2>2. check' = [check EXCEPT ![r] = next]
      BY <1>2 DEF Miss
    <2> HIDE DEF next
    <2> QED
      BY <1>2, <2>1, <2>2 DEF Miss, TypeOK, ScopesKnown, reactions
  <1>3. CASE Fetch(r)
    <2> DEFINE entries == blockedTerms[check[r].scope]
               next == [check[r] EXCEPT !.pc = "store", !.entries = entries]
    <2>1. check[r].scope \in Scopes /\ entries \in SUBSET Terms
      BY <1>3 DEF Fetch, ScopesKnown, TypeOK
    <2> HIDE DEF entries
    <2>2. next \in Check /\ next.scope = check[r].scope
      BY <1>1, <2>1, CheckTyped DEF Check
    <2>3. check' = [check EXCEPT ![r] = next]
      BY <1>3 DEF Fetch, TypeOK, entries
    <2> HIDE DEF next
    <2> QED
      BY <1>3, <2>1, <2>2, <2>3 DEF Fetch, TypeOK, ScopesKnown, reactions
  <1>4. CASE FetchFails(r)
    <2>1. NoCheck \in Check
      BY DEF NoCheck, Check
    <2> QED
      BY <1>1, <1>4, <2>1 DEF FetchFails, Fault, TypeOK, ScopesKnown, reactions
  <1>5. CASE Store(r)
    <2>1. NoCheck \in Check /\ check[r].entries \in SUBSET Terms
      BY <1>1 DEF NoCheck, Check
    <2>2. [entries |-> check[r].entries, expires |-> now + BlockedTermsTTL] \in Cached
      BY <2>1 DEF TypeOK, Cached, Time
    <2> QED
      BY <1>1, <1>5, <2>1, <2>2 DEF Store, TypeOK, ScopesKnown, reactions
  <1> QED
    BY <1>2, <1>3, <1>4, <1>5

LEMMA ChangeTyped ==
  ASSUME TypeOK, ScopesKnown, NEW e \in Editors, NEW s \in Scopes,
         NEW table \in SUBSET Terms, NEW changed \in SUBSET Terms,
         Change(e, s, table, changed)
  PROVE  TypeOK' /\ ScopesKnown'
  <1> DEFINE k == [pc |-> "answer", scope |-> s, changed |-> changed]
  <1>1. k \in Edit /\ k.scope = s
    BY DEF Edit
  <1>2. edit' = [edit EXCEPT ![e] = k]
    BY DEF Change
  <1> HIDE DEF k
  <1> QED
    BY <1>1, <1>2 DEF Change, TypeOK, ScopesKnown, reactions

LEMMA EditStepTyped ==
  ASSUME TypeOK, ScopesKnown, EditStep
  PROVE  TypeOK' /\ ScopesKnown'
  <1>1. ASSUME NEW e \in Editors, NEW s \in Scopes, NEW t \in Terms,
               Add(e, s, t) \/ Delete(e, s, t)
        PROVE  TypeOK' /\ ScopesKnown'
    <2>1. blockedTerms[s] \cup {t} \in SUBSET Terms /\ blockedTerms[s] \ {t} \in SUBSET Terms
      BY DEF TypeOK
    <2> QED
      BY <1>1, <2>1, ChangeTyped DEF Add, Delete
  <1>2. ASSUME NEW e \in Editors, NEW s \in Scopes, NEW list \in SUBSET Terms,
               Import(e, s, list)
        PROVE  TypeOK' /\ ScopesKnown'
    <2>1. blockedTerms[s] \cup list \in SUBSET Terms
      BY DEF TypeOK
    <2> QED
      BY <1>2, <2>1, ChangeTyped DEF Import
  <1>3. ASSUME NEW e \in Editors, EditAnswered(e) PROVE TypeOK' /\ ScopesKnown'
    <2> DEFINE next == [edit[e] EXCEPT !.pc = "flush"]
    <2>1. next \in Edit /\ next.scope = edit[e].scope
      BY DEF TypeOK, Edit
    <2>2. edit' = [edit EXCEPT ![e] = next]
      BY <1>3 DEF EditAnswered, TypeOK
    <2> HIDE DEF next
    <2> QED
      BY <1>3, <2>1, <2>2 DEF EditAnswered, TypeOK, ScopesKnown, reactions
  <1>4. ASSUME NEW e \in Editors, EditFails(e) \/ InvalidateBlockedTermsCache(e)
        PROVE  TypeOK' /\ ScopesKnown'
    <2>1. NoEdit \in Edit /\ NoEdit.pc = "idle" /\ NotCached \in Cached
      BY DEF NoEdit, Edit, NotCached, Cached, Time
    <2>2. edit[e].scope \in Scopes /\ edit[e].changed \in SUBSET Terms
      BY <1>4 DEF EditFails, InvalidateBlockedTermsCache, ScopesKnown, TypeOK, Edit
    <2> QED
      BY <1>4, <2>1, <2>2
         DEF EditFails, InvalidateBlockedTermsCache, Fault, TypeOK, ScopesKnown, reactions
  <1> QED
    BY <1>1, <1>2, <1>3, <1>4 DEF EditStep

LEMMA ReadersStepTyped == TypeOK /\ ScopesKnown /\ [Next]_vars => (TypeOK /\ ScopesKnown)'
  <1> SUFFICES ASSUME TypeOK, ScopesKnown, [Next]_vars PROVE TypeOK' /\ ScopesKnown'
    OBVIOUS
  <1>1. CASE ReactionStep
    BY <1>1 DEF ReactionStep, Toggle, InsertComment, DeleteComment, Decremented, TypeOK,
                ScopesKnown, terms
  <1>2. CASE Restart
    <2>1. /\ NoCheck \in Check /\ NoCheck.pc = "idle" /\ NoEdit \in Edit
          /\ NoEdit.pc = "idle" /\ NotCached \in Cached
      BY DEF NoCheck, Check, NoEdit, Edit, NotCached, Cached, Time
    <2> QED
      BY <1>2, <2>1 DEF Restart, Fault, TypeOK, ScopesKnown, reactions
  <1>3. CASE Tick \/ UNCHANGED vars
    BY <1>3 DEF Tick, vars, terms, reactions, TypeOK, ScopesKnown
  <1> QED
    BY <1>1, <1>2, <1>3, CheckStepTyped, EditStepTyped
       DEF Next, CheckStep, EditStep, ReactionStep

\* The rows, the cache and the requests under way are what the code declares.
THEOREM ReadersAreTyped == Spec => []TypeOK
  <1>1. Init => TypeOK /\ ScopesKnown
    BY ReadersInitTyped DEF Init, ScopesKnown, NoCheck, NoEdit
  <1> QED
    BY <1>1, ReadersStepTyped, PTL DEF Spec

-----------------------------------------------------------------------------
(* The cache of the blocked terms *)

\* The mutex is held by one check.
OneCheck == \A q, r \in Requests : check[q].pc # "idle" /\ check[r].pc # "idle" => q = r

\* What the property excuses of a scope.
Excused(s) == Flushing(s) \cup unflushed[s]

\* A check has fetched what is in the table but for changes whose flush is still
\* to come or was skipped.
FetchedIsCurrent ==
    \A r \in Requests : check[r].pc = "store" =>
        Difference(check[r].entries, blockedTerms[check[r].scope])
            \subseteq Excused(check[r].scope)

TermsInv == OneCheck /\ FetchedIsCurrent /\ CachedTermsCurrent

\* A step that only lets time pass or excuses more terms.
LEMMA ExcusesKept ==
  ASSUME TypeOK, ScopesKnown, TermsInv, UNCHANGED <<cache, check, blockedTerms>>,
         \A s \in Scopes : Fresh(s)' => Fresh(s),
         \A s \in Scopes : Excused(s) \subseteq Excused(s)'
  PROVE  TermsInv'
  <1>1. OneCheck'
    BY DEF TermsInv, OneCheck
  <1>2. FetchedIsCurrent'
    <2> SUFFICES ASSUME NEW r \in Requests, check[r].pc = "store"
                 PROVE  Difference(check[r].entries, blockedTerms[check[r].scope])
                            \subseteq Excused(check[r].scope)'
      BY DEF FetchedIsCurrent, Difference, Excused, Flushing
    <2>1. check[r].scope \in Scopes
      BY DEF ScopesKnown
    <2>2. Difference(check[r].entries, blockedTerms[check[r].scope])
              \subseteq Excused(check[r].scope)
      BY DEF TermsInv, FetchedIsCurrent
    <2>3. Excused(check[r].scope) \subseteq Excused(check[r].scope)'
      BY <2>1
    <2> QED
      BY <2>2, <2>3
  <1>3. CachedTermsCurrent'
    <2> SUFFICES ASSUME NEW s \in Scopes, Fresh(s)'
                 PROVE  Difference(cache[s].entries, blockedTerms[s]) \subseteq Excused(s)'
      BY DEF CachedTermsCurrent, Difference, Excused, Flushing, Fresh
    <2>1. Difference(cache[s].entries, blockedTerms[s]) \subseteq Excused(s)
      BY DEF TermsInv, CachedTermsCurrent, Excused
    <2> QED
      BY <2>1
  <1> QED
    BY <1>1, <1>2, <1>3 DEF TermsInv

LEMMA CheckKeepsTerms ==
  ASSUME TypeOK, ScopesKnown, TermsInv, CheckStep
  PROVE  TermsInv'
  <1> PICK r \in Requests :
        (\E s \in Scopes : Miss(r, s)) \/ Fetch(r) \/ FetchFails(r) \/ Store(r)
    BY DEF CheckStep
  <1>1. /\ check[r] \in Check /\ NoCheck.pc = "idle"
        /\ edit' = edit /\ blockedTerms' = blockedTerms /\ now' = now
        /\ \A q \in Requests \ {r} : check'[q] = check[q]
    BY DEF TypeOK, NoCheck, Miss, Fetch, FetchFails, Store
  <1>2. \A s : Flushing(s)' = Flushing(s)
    BY <1>1 DEF Flushing
  \* A step that leaves the cache alone and fetches what the table has.
  <1>3. ASSUME UNCHANGED <<cache, unflushed>>,
               check'[r].pc = "store" =>
                    check'[r].entries = blockedTerms[check'[r].scope]
        PROVE  FetchedIsCurrent' /\ CachedTermsCurrent'
    <2>1. \A s : Excused(s)' = Excused(s)
      BY <1>2, <1>3 DEF Excused
    <2>2. ASSUME NEW q \in Requests, check'[q].pc = "store"
          PROVE  Difference(check'[q].entries, blockedTerms[check'[q].scope])
                     \subseteq Excused(check'[q].scope)
      <3>1. CASE q = r
        BY <1>3, <2>2, <3>1 DEF Difference
      <3>2. CASE q # r
        BY <1>1, <2>2, <3>2 DEF TermsInv, FetchedIsCurrent
      <3> QED
        BY <3>1, <3>2
    <2>3. FetchedIsCurrent'
      BY <1>1, <1>3, <2>2, Zenon DEF FetchedIsCurrent, Excused, Flushing
    <2>4. CachedTermsCurrent'
      BY <1>1, <1>2, <1>3 DEF TermsInv, CachedTermsCurrent, Fresh, Difference
    <2> QED
      BY <2>3, <2>4
  <1>4. ASSUME NEW s \in Scopes, Miss(r, s) PROVE TermsInv'
    <2>1. check'[r] = [NoCheck EXCEPT !.pc = "fetch", !.scope = s]
      BY <1>4 DEF Miss, TypeOK
    <2>2. check'[r].pc = "fetch"
      BY <2>1 DEF NoCheck
    <2>3. OneCheck'
      BY <1>1, <1>4 DEF Miss, Locked, OneCheck
    <2>4. UNCHANGED <<cache, unflushed>>
      BY <1>4 DEF Miss
    <2> QED
      BY <1>3, <2>2, <2>3, <2>4 DEF TermsInv
  <1>5. CASE Fetch(r)
    <2>1. check'[r] = [check[r] EXCEPT !.pc = "store",
                                       !.entries = blockedTerms[check[r].scope]]
      BY <1>5 DEF Fetch, TypeOK
    <2>2. /\ check'[r].pc = "store" /\ check'[r].scope = check[r].scope
          /\ check'[r].entries = blockedTerms[check[r].scope]
      BY <1>1, <2>1 DEF Check
    <2>3. OneCheck'
      BY <1>1, <1>5 DEF TermsInv, Fetch, OneCheck
    <2>4. UNCHANGED <<cache, unflushed>>
      BY <1>5 DEF Fetch
    <2> QED
      BY <1>3, <2>2, <2>3, <2>4 DEF TermsInv
  <1>6. CASE FetchFails(r)
    <2>1. check'[r].pc = "idle" /\ cache' = cache /\ unflushed' = unflushed
      BY <1>1, <1>6 DEF FetchFails, TypeOK
    <2>2. OneCheck'
      BY <1>1, <2>1 DEF TermsInv, OneCheck
    <2> QED
      BY <1>3, <2>1, <2>2 DEF TermsInv
  <1>7. CASE Store(r)
    <2> PICK s \in Scopes : s = check[r].scope
      BY <1>7 DEF Store, ScopesKnown
    <2> PICK fetched \in SUBSET Terms : fetched = check[r].entries
      BY <1>1 DEF Check
    <2>1. /\ check[r].pc = "store" /\ check'[r].pc = "idle"
          /\ cache'[s] = [entries |-> fetched, expires |-> now + BlockedTermsTTL]
          /\ unflushed'[s] = unflushed[s] \cap Difference(fetched, blockedTerms[s])
          /\ \A t \in Scopes \ {s} : cache'[t] = cache[t] /\ unflushed'[t] = unflushed[t]
      BY <1>1, <1>7 DEF Store, ScopesKnown, TypeOK
    <2>2. \A q \in Requests : check'[q].pc = "idle"
      BY <1>1, <2>1 DEF TermsInv, OneCheck, TypeOK, Check
    <2>3. OneCheck' /\ FetchedIsCurrent'
      BY <2>2 DEF OneCheck, FetchedIsCurrent
    <2>4. Difference(fetched, blockedTerms[s]) \subseteq Flushing(s) \cup unflushed[s]
      BY <2>1 DEF TermsInv, FetchedIsCurrent, Excused
    <2>5. Difference(cache'[s].entries, blockedTerms'[s])
              \subseteq Flushing(s)' \cup unflushed'[s]
      BY <1>1, <1>2, <2>1, <2>4
    <2>6. ASSUME NEW t \in Scopes \ {s}, Fresh(t)'
          PROVE  Difference(cache'[t].entries, blockedTerms'[t])
                     \subseteq Flushing(t)' \cup unflushed'[t]
      BY <1>1, <1>2, <2>1, <2>6 DEF TermsInv, CachedTermsCurrent, Fresh
    <2>7. CachedTermsCurrent'
      BY <2>5, <2>6 DEF CachedTermsCurrent, Difference
    <2> QED
      BY <2>3, <2>7 DEF TermsInv
  <1> QED
    BY <1>4, <1>5, <1>6, <1>7

\* Between the change of a table and its flush, what it changed is excused.
LEMMA ChangeKeepsTerms ==
  ASSUME TypeOK, ScopesKnown, TermsInv, NEW e \in Editors, NEW s \in Scopes, NEW table,
         NEW changed \in SUBSET Terms, Change(e, s, table, changed),
         Difference(blockedTerms[s], table) \subseteq changed
  PROVE  TermsInv'
  <1>1. /\ UNCHANGED <<now, cache, check, unflushed>> /\ edit[e].pc = "idle"
        /\ edit'[e].pc # "idle" /\ edit'[e].scope = s /\ edit'[e].changed = changed
        /\ \A d \in Editors \ {e} : edit'[d] = edit[d]
        /\ blockedTerms'[s] = table
        /\ \A t \in Scopes \ {s} : blockedTerms'[t] = blockedTerms[t]
    BY DEF Change, TypeOK
  <1>2. /\ changed \subseteq Flushing(s)'
        /\ \A t : Flushing(t) \subseteq Flushing(t)'
    BY <1>1 DEF Flushing
  <1>3. OneCheck'
    BY <1>1 DEF TermsInv, OneCheck
  \* Whatever was excused before the change is excused after it.
  <1>4. ASSUME NEW t \in Scopes, NEW list,
               Difference(list, blockedTerms[t]) \subseteq Flushing(t) \cup unflushed[t]
        PROVE  Difference(list, blockedTerms'[t]) \subseteq Flushing(t)' \cup unflushed'[t]
    <2>1. CASE t = s
      BY <1>1, <1>2, <1>4, <2>1 DEF Difference
    <2>2. CASE t # s
      BY <1>1, <1>2, <1>4, <2>2
    <2> QED
      BY <2>1, <2>2
  <1>5. FetchedIsCurrent'
    <2> SUFFICES ASSUME NEW r \in Requests, check[r].pc = "store"
                 PROVE  Difference(check[r].entries, blockedTerms'[check[r].scope])
                            \subseteq Excused(check[r].scope)'
      BY <1>1 DEF FetchedIsCurrent, Difference, Excused, Flushing
    <2> PICK t \in Scopes : t = check[r].scope
      BY DEF ScopesKnown
    <2>1. Difference(check[r].entries, blockedTerms[t]) \subseteq Flushing(t) \cup unflushed[t]
      BY DEF TermsInv, FetchedIsCurrent, Excused
    <2>2. Difference(check[r].entries, blockedTerms'[t]) \subseteq Flushing(t)' \cup unflushed'[t]
      BY <1>4, <2>1
    <2> QED
      BY <1>1, <2>2 DEF Excused, Flushing
  <1>6. CachedTermsCurrent'
    <2> SUFFICES ASSUME NEW t \in Scopes, Fresh(t)
                 PROVE  Difference(cache[t].entries, blockedTerms'[t])
                            \subseteq Flushing(t)' \cup unflushed'[t]
      BY <1>1 DEF CachedTermsCurrent, Difference, Fresh
    <2>1. Difference(cache[t].entries, blockedTerms[t]) \subseteq Flushing(t) \cup unflushed[t]
      BY DEF TermsInv, CachedTermsCurrent
    <2> QED
      BY <1>4, <2>1
  <1> QED
    BY <1>3, <1>5, <1>6 DEF TermsInv

LEMMA EditKeepsTerms ==
  ASSUME TypeOK, ScopesKnown, TermsInv, EditStep
  PROVE  TermsInv'
  <1>1. ASSUME NEW e \in Editors, EditAnswered(e) PROVE TermsInv'
    <2>1. /\ UNCHANGED <<now, cache, check, unflushed, blockedTerms>>
          /\ edit[e].pc # "idle" /\ edit'[e].pc # "idle"
          /\ edit'[e].scope = edit[e].scope /\ edit'[e].changed = edit[e].changed
          /\ \A d \in Editors \ {e} : edit'[d] = edit[d]
      <3>1. edit[e] \in Edit /\ edit'[e] = [edit[e] EXCEPT !.pc = "flush"]
        BY <1>1 DEF EditAnswered, TypeOK
      <3>2. /\ edit'[e].pc = "flush" /\ edit'[e].scope = edit[e].scope
            /\ edit'[e].changed = edit[e].changed
        BY <3>1 DEF Edit
      <3> QED
        BY <1>1, <3>2 DEF EditAnswered, TypeOK
    <2>2. \A s : Flushing(s)' = Flushing(s)
      BY <2>1 DEF Flushing
    <2> QED
      BY <2>1, <2>2, ExcusesKept DEF Excused, Fresh
  \* The terms of the failed edit are unflushed from now on.
  <1>2. ASSUME NEW e \in Editors, EditFails(e) PROVE TermsInv'
    <2>1. /\ UNCHANGED <<now, cache, check, blockedTerms>>
          /\ edit[e].scope \in Scopes
          /\ unflushed'[edit[e].scope] = unflushed[edit[e].scope] \cup edit[e].changed
          /\ \A s \in Scopes \ {edit[e].scope} : unflushed'[s] = unflushed[s]
          /\ \A d \in Editors \ {e} : edit'[d] = edit[d]
      BY <1>2 DEF EditFails, TypeOK, ScopesKnown
    <2>2. ASSUME NEW s \in Scopes, NEW t \in Excused(s) PROVE t \in Excused(s)'
      <3>1. CASE t \in unflushed[s]
        BY <2>1, <3>1 DEF Excused
      <3>2. CASE t \in Flushing(s)
        <4>1. PICK d \in Editors : edit[d].pc # "idle" /\ edit[d].scope = s
                                   /\ t \in edit[d].changed /\ t \in Terms
          BY <3>2 DEF Flushing
        <4>2. CASE d = e
          BY <2>1, <4>1, <4>2 DEF Excused
        <4>3. CASE d # e
          BY <2>1, <4>1, <4>3 DEF Excused, Flushing
        <4> QED
          BY <4>2, <4>3
      <3> QED
        BY <2>2, <3>1, <3>2 DEF Excused
    <2> QED
      BY <2>1, <2>2, ExcusesKept DEF Fresh
  \* It has the mutex, so nothing that was fetched before is still to be stored.
  <1>3. ASSUME NEW e \in Editors, InvalidateBlockedTermsCache(e) PROVE TermsInv'
    <2>1. /\ \A r \in Requests : check'[r].pc = "idle"
          /\ \A s \in Scopes : cache'[s].expires = 0
          /\ now' \in Nat
      BY <1>3 DEF InvalidateBlockedTermsCache, Locked, NotCached, TypeOK
    <2> QED
      BY <2>1 DEF TermsInv, OneCheck, FetchedIsCurrent, CachedTermsCurrent, Fresh
  <1>4. ASSUME NEW e \in Editors, NEW s \in Scopes, NEW t \in Terms,
               Add(e, s, t) \/ Delete(e, s, t)
        PROVE  TermsInv'
    <2>1. /\ Difference(blockedTerms[s], blockedTerms[s] \cup {t}) \subseteq {t}
          /\ Difference(blockedTerms[s], blockedTerms[s] \ {t}) \subseteq {t}
          /\ {t} \in SUBSET Terms
      BY DEF Difference
    <2> QED
      BY <1>4, <2>1, ChangeKeepsTerms DEF Add, Delete
  <1>5. ASSUME NEW e \in Editors, NEW s \in Scopes, NEW list \in SUBSET Terms,
               Import(e, s, list)
        PROVE  TermsInv'
    <2>1. Difference(blockedTerms[s], blockedTerms[s] \cup list) \subseteq list
      BY DEF Difference
    <2> QED
      BY <1>5, <2>1, ChangeKeepsTerms DEF Import
  <1> QED
    BY <1>1, <1>2, <1>3, <1>4, <1>5 DEF EditStep

LEMMA TermsStep ==
  TypeOK /\ ScopesKnown /\ TermsInv /\ [Next]_vars => TermsInv'
  <1> SUFFICES ASSUME TypeOK, ScopesKnown, TermsInv, [Next]_vars PROVE TermsInv'
    OBVIOUS
  <1>1. CASE ReactionStep \/ UNCHANGED vars
    <2>1. UNCHANGED <<now, cache, check, edit, unflushed, blockedTerms>>
      BY <1>1 DEF ReactionStep, Toggle, InsertComment, DeleteComment, vars, terms
    <2>2. \A s : Flushing(s)' = Flushing(s)
      BY <2>1 DEF Flushing
    <2> QED
      BY <2>1, <2>2, ExcusesKept DEF Excused, Fresh
  <1>2. CASE Restart
    <2>1. /\ \A r \in Requests : check'[r].pc = "idle"
          /\ \A s \in Scopes : cache'[s].expires = 0
          /\ now' \in Nat
      BY <1>2 DEF Restart, NoCheck, NotCached, TypeOK
    <2> QED
      BY <2>1 DEF TermsInv, OneCheck, FetchedIsCurrent, CachedTermsCurrent, Fresh
  <1>3. CASE Tick
    <2>1. /\ UNCHANGED <<cache, check, edit, unflushed, blockedTerms>>
          /\ now \in Nat /\ now' = now + 1
      BY <1>3 DEF Tick, terms, TypeOK
    <2>2. \A s : Flushing(s)' = Flushing(s)
      BY <2>1 DEF Flushing
    <2>3. \A s \in Scopes : Fresh(s)' => Fresh(s)
      <3>1. \A s \in Scopes : cache[s].expires \in Nat
        BY DEF TypeOK, Cached, Time
      <3> QED
        BY <2>1, <3>1 DEF Fresh
    <2> QED
      BY <2>1, <2>2, <2>3, ExcusesKept DEF Excused
  <1> QED
    BY <1>1, <1>2, <1>3, CheckKeepsTerms, EditKeepsTerms
       DEF Next, CheckStep, EditStep, ReactionStep

\* No interleaving of checks, edits, flushes and failures leaves terms in the
\* cache that an edit has replaced, but for edits that failed after their change.
THEOREM CacheFollowsTerms == Spec => []CachedTermsCurrent
  <1>1. Init => TypeOK /\ ScopesKnown /\ TermsInv
    BY ReadersInitTyped DEF Init, ScopesKnown, NoCheck, NoEdit, TermsInv, OneCheck,
                            FetchedIsCurrent, CachedTermsCurrent, Fresh, NotCached
  <1>2. TypeOK /\ ScopesKnown /\ TermsInv /\ [Next]_vars
          => (TypeOK /\ ScopesKnown /\ TermsInv)'
    BY ReadersStepTyped, TermsStep
  <1>3. TermsInv => CachedTermsCurrent
    BY DEF TermsInv
  <1> QED
    BY <1>1, <1>2, <1>3, PTL DEF Spec

-----------------------------------------------------------------------------
(* Votes and flags *)

LEMMA OneRowMoreOrLess ==
  ASSUME NEW S, IsFiniteSet(S), NEW u
  PROVE  /\ u \notin S => Cardinality(S \cup {u}) = Cardinality(S) + 1
         /\ u \in S => Cardinality(S \ {u}) = Cardinality(S) - 1
  BY FS_AddElement, FS_RemoveElement

LEMMA CountersStep == TypeOK /\ CountersFollowRows /\ [Next]_vars => CountersFollowRows'
  <1> SUFFICES ASSUME TypeOK, CountersFollowRows, [Next]_vars PROVE CountersFollowRows'
    OBVIOUS
  <1>1. \A c \in Comments : /\ IsFiniteSet(reacted[c]) /\ Cardinality(reacted[c]) \in Nat
                            /\ counter[c] \in Nat
    BY FS_Subset, FS_CardinalityType DEF TypeOK
  <1>2. ASSUME NEW c \in Comments, NEW u \in Readers, Toggle(c, u)
        PROVE  CountersFollowRows'
    <2>1. /\ comments' = comments /\ reinserted' = reinserted
          /\ \A d \in Comments \ {c} : reacted'[d] = reacted[d] /\ counter'[d] = counter[d]
          /\ comments \subseteq Comments
      BY <1>2 DEF Toggle, TypeOK
    <2>2. /\ IsFiniteSet(reacted[c]) /\ Cardinality(reacted[c]) \in Nat
          /\ counter[c] \in Nat
      BY <1>1
    <2>3. CASE u \notin reacted[c]
      <3>1. reacted'[c] = reacted[c] \cup {u} /\ counter'[c] = counter[c] + 1
        BY <1>2, <2>3 DEF Toggle, TypeOK
      <3>2. Cardinality(reacted'[c]) = Cardinality(reacted[c]) + 1
        BY <2>2, <2>3, <3>1, OneRowMoreOrLess
      <3> SUFFICES ASSUME NEW d \in comments
                   PROVE  IF d \in reinserted
                          THEN counter'[d] <= Cardinality(reacted'[d])
                          ELSE counter'[d] = Cardinality(reacted'[d])
        BY <2>1 DEF CountersFollowRows
      <3>3. CASE d = c
        <4>1. IF c \in reinserted THEN counter[c] <= Cardinality(reacted[c])
                                 ELSE counter[c] = Cardinality(reacted[c])
          BY <3>3 DEF CountersFollowRows
        <4>2. counter'[c] <= Cardinality(reacted'[c])
          BY <2>2, <3>1, <3>2, <4>1
        <4>3. c \notin reinserted => counter'[c] = Cardinality(reacted'[c])
          BY <2>2, <3>1, <3>2, <4>1
        <4> QED
          BY <3>3, <4>2, <4>3
      <3>4. CASE d # c
        BY <2>1, <3>4 DEF CountersFollowRows
      <3> QED
        BY <3>3, <3>4
    <2>4. CASE u \in reacted[c]
      <3>1. reacted'[c] = reacted[c] \ {u} /\ counter'[c] = Decremented(counter[c])
        BY <1>2, <2>4 DEF Toggle, TypeOK
      <3>2. Cardinality(reacted'[c]) = Cardinality(reacted[c]) - 1
        BY <2>2, <2>4, <3>1, OneRowMoreOrLess
      <3>3. Cardinality(reacted[c]) # 0
        BY <2>2, <2>4, FS_EmptySet
      <3> SUFFICES ASSUME NEW d \in comments
                   PROVE  IF d \in reinserted
                          THEN counter'[d] <= Cardinality(reacted'[d])
                          ELSE counter'[d] = Cardinality(reacted'[d])
        BY <2>1 DEF CountersFollowRows
      <3>4. CASE d = c
        BY <2>2, <3>1, <3>2, <3>3, <3>4 DEF CountersFollowRows, Decremented
      <3>5. CASE d # c
        BY <2>1, <3>5 DEF CountersFollowRows
      <3> QED
        BY <3>4, <3>5
    <2> QED
      BY <2>3, <2>4
  <1>3. ASSUME NEW c \in Comments, InsertComment(c) PROVE CountersFollowRows'
    <2>1. /\ comments' = comments \cup {c} /\ reacted' = reacted /\ counter'[c] = 0
          /\ \A d \in Comments \ {c} : counter'[d] = counter[d]
          /\ \A d \in Comments \ {c} : d \in reinserted' <=> d \in reinserted
          /\ c \in reinserted' <=> reacted[c] # {}
          /\ comments \subseteq Comments
      BY <1>3 DEF InsertComment, TypeOK
    <2> QED
      BY <1>1, <2>1, FS_EmptySet DEF CountersFollowRows
  <1>4. ASSUME NEW c \in Comments, DeleteComment(c) PROVE CountersFollowRows'
    <2>1. /\ comments' = comments \ {c}
          /\ \A d \in Comments \ {c} : /\ counter'[d] = counter[d] /\ reacted'[d] = reacted[d]
                                       /\ d \in reinserted' <=> d \in reinserted
          /\ comments \subseteq Comments
      BY <1>4 DEF DeleteComment, TypeOK
    <2> QED
      BY <2>1 DEF CountersFollowRows
  <1>5. CASE UNCHANGED reactions
    BY <1>5 DEF reactions, CountersFollowRows
  <1>6. CheckStep \/ EditStep \/ Restart \/ Tick \/ UNCHANGED vars => UNCHANGED reactions
    BY DEF CheckStep, EditStep, Miss, Fetch, FetchFails, Store, Add, Delete, Import, Change,
           EditAnswered, EditFails, InvalidateBlockedTermsCache, Restart, Tick, vars
  <1> QED
    BY <1>2, <1>3, <1>4, <1>5, <1>6 DEF Next, CheckStep, EditStep

\* Votes, flags, deletions and reimports never make a counter exceed its rows,
\* and without a reimport over old rows it equals them.
THEOREM CountersAgreeWithRows == Spec => []CountersFollowRows
  <1>1. Init => TypeOK /\ ScopesKnown /\ CountersFollowRows
    BY ReadersInitTyped DEF Init, ScopesKnown, NoCheck, NoEdit, CountersFollowRows
  <1>2. TypeOK /\ ScopesKnown /\ CountersFollowRows /\ [Next]_vars
          => (TypeOK /\ ScopesKnown /\ CountersFollowRows)'
    BY ReadersStepTyped, CountersStep
  <1> QED
    BY <1>1, <1>2, PTL DEF Spec

=============================================================================
