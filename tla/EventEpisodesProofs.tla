-------------------------- MODULE EventEpisodesProofs --------------------------
(***************************************************************************)
(* What follows from the store's promise alone: with finitely many callers *)
(* the notices balance.  The invariant is inductive once types are known:  *)
(* an episode that starts or ends changes one caller's debt by one, and a  *)
(* notice given moves one from the debts to the count.                     *)
(***************************************************************************)
EXTENDS EventEpisodes, FiniteSetTheorems, TLAPS

Balanced(s) ==
  sent[s]["raised"] + Cardinality(Owing(s, "raised"))
    = sent[s]["resolved"] + Cardinality(Owing(s, "resolved"))
      + (IF s \in open THEN 1 ELSE 0)

\* Owing(s, n) is a finite set.
LEMMA OwingIsFinite ==
  ASSUME IsFiniteSet(Callers), NEW s \in Signatures, NEW n \in News
  PROVE  IsFiniteSet(Owing(s, n)) /\ Cardinality(Owing(s, n)) \in Nat
<1>1. Owing(s, n) \subseteq Callers
  BY DEF Owing
<1>2. IsFiniteSet(Owing(s, n))
  BY <1>1, FS_Subset
<1>. QED BY <1>2, FS_CardinalityType

\* A caller that takes on a debt adds itself to one of the sets of debtors.
LEMMA OweCounts ==
  ASSUME TypeOK, NoNotice \notin Notices, IsFiniteSet(Callers),
         NEW c \in Callers, NEW s \in Signatures, NEW n \in News, Owe(c, s, n),
         NEW t \in Signatures, NEW m \in News
  PROVE  Cardinality(Owing(t, m)')
           = Cardinality(Owing(t, m)) + (IF t = s /\ m = n THEN 1 ELSE 0)
<1>1. c \notin Owing(t, m)
  BY DEF Owe, Owing, Notices
<1>2. CASE t = s /\ m = n
  <2>1. Owing(t, m)' = Owing(t, m) \cup {c}
    BY <1>2 DEF Owe, Owing, TypeOK
  <2>. QED BY <1>1, <1>2, <2>1, OwingIsFinite, FS_AddElement
<1>3. CASE ~(t = s /\ m = n)
  <2>1. Owing(t, m)' = Owing(t, m)
    BY <1>1, <1>3 DEF Owe, Owing, TypeOK
  <2>. QED BY <1>3, <2>1, OwingIsFinite
<1>. QED BY <1>2, <1>3

\* A caller that gives its notice leaves that set.
LEMMA TellCounts ==
  ASSUME TypeOK, NoNotice \notin Notices, IsFiniteSet(Callers),
         NEW c \in Callers, Tell(c), NEW t \in Signatures, NEW m \in News
  PROVE  sent'[t][m] + Cardinality(Owing(t, m)') = sent[t][m] + Cardinality(Owing(t, m))
<1>1. owed[c] \in Notices /\ sent[t][m] \in Nat
  BY DEF Tell, TypeOK
<1>2. CASE owed[c] = [sig |-> t, news |-> m]
  <2>1. c \in Owing(t, m) /\ Owing(t, m)' = Owing(t, m) \ {c}
    BY <1>2 DEF Tell, Owing, TypeOK, Notices
  <2>2. Cardinality(Owing(t, m)') = Cardinality(Owing(t, m)) - 1
    BY <2>1, OwingIsFinite, FS_RemoveElement
  <2>3. sent'[t][m] = sent[t][m] + 1
    BY <1>2 DEF Tell, TypeOK
  <2>. QED BY <1>1, <2>2, <2>3, OwingIsFinite
<1>3. CASE owed[c] # [sig |-> t, news |-> m]
  <2>1. Owing(t, m)' = Owing(t, m)
    BY <1>3 DEF Tell, Owing, TypeOK, Notices
  <2>2. sent'[t][m] = sent[t][m]
    BY <1>1, <1>3 DEF Tell, TypeOK, Notices
  <2>. QED BY <2>1, <2>2
<1>. QED BY <1>2, <1>3

\* The steps keep the types.
LEMMA TypesKept ==
  ASSUME TypeOK, NoNotice \notin Notices, [Next]_vars
  PROVE  TypeOK'
<1>1. ASSUME NEW c \in Callers, NEW s \in Signatures, NEW n \in News,
             Owe(c, s, n), open' \subseteq Signatures
      PROVE  TypeOK'
  BY <1>1 DEF Owe, TypeOK, Notices
<1>2. ASSUME NEW c \in Callers, NEW s \in Signatures, Begin(c, s) \/ End(c, s)
      PROVE  TypeOK'
  BY <1>1, <1>2 DEF Begin, End, TypeOK, News
<1>3. ASSUME NEW c \in Callers, Tell(c)
      PROVE  TypeOK'
  <2>1. owed[c].sig \in Signatures /\ owed[c].news \in News
    BY <1>3 DEF Tell, TypeOK, Notices
  <2>. QED BY <1>3, <2>1 DEF Tell, TypeOK
<1>4. CASE UNCHANGED vars
  BY <1>4 DEF vars, TypeOK
<1>. QED BY <1>2, <1>3, <1>4 DEF Next

\* The steps keep the balance.
LEMMA BalanceKept ==
  ASSUME TypeOK, NoNotice \notin Notices, IsFiniteSet(Callers), [Next]_vars,
         NEW t \in Signatures, Balanced(t)
  PROVE  Balanced(t)'
<1>. DEFINE debts(n) == Cardinality(Owing(t, n))
<1>1. /\ sent[t]["raised"] \in Nat /\ sent[t]["resolved"] \in Nat
      /\ debts("raised") \in Nat /\ debts("resolved") \in Nat
  BY OwingIsFinite DEF TypeOK, News
<1>2. "raised" \in News /\ "resolved" \in News
  BY DEF News
<1>3. ASSUME NEW c \in Callers, NEW s \in Signatures, Begin(c, s)
      PROVE  Balanced(t)'
  <2>1. /\ debts("raised")' = debts("raised") + (IF t = s THEN 1 ELSE 0)
        /\ debts("resolved")' = debts("resolved")
    BY <1>1, <1>2, <1>3, OweCounts DEF Begin
  <2>2. sent' = sent /\ s \notin open /\ open' = open \cup {s}
    BY <1>3 DEF Begin, Owe
  <2>. QED BY <1>1, <2>1, <2>2 DEF Balanced
<1>4. ASSUME NEW c \in Callers, NEW s \in Signatures, End(c, s)
      PROVE  Balanced(t)'
  <2>1. /\ debts("resolved")' = debts("resolved") + (IF t = s THEN 1 ELSE 0)
        /\ debts("raised")' = debts("raised")
    BY <1>1, <1>2, <1>4, OweCounts DEF End
  <2>2. sent' = sent /\ s \in open /\ open' = open \ {s}
    BY <1>4 DEF End, Owe
  <2>. QED BY <1>1, <2>1, <2>2 DEF Balanced
<1>5. ASSUME NEW c \in Callers, Tell(c)
      PROVE  Balanced(t)'
  <2>1. /\ sent'[t]["raised"] + debts("raised")' = sent[t]["raised"] + debts("raised")
        /\ sent'[t]["resolved"] + debts("resolved")' = sent[t]["resolved"] + debts("resolved")
    BY <1>2, <1>5, TellCounts
  <2>2. open' = open
    BY <1>5 DEF Tell
  <2>. QED BY <2>1, <2>2 DEF Balanced
<1>6. CASE UNCHANGED vars
  BY <1>6 DEF vars, Balanced, Owing
<1>. QED BY <1>3, <1>4, <1>5, <1>6 DEF Next

\* Of every signature, as many episodes have been announced as started as have
\* been announced as ended, counting what is owed and the one going on.
THEOREM PromiseBalances ==
  ASSUME NoNotice \notin Notices, IsFiniteSet(Callers)
  PROVE  Spec => []NoticesBalance
<1>. DEFINE Inv == TypeOK /\ \A t \in Signatures : Balanced(t)
<1>1. Init => Inv
  <2>1. SUFFICES ASSUME Init PROVE Inv
    OBVIOUS
  <2>2. TypeOK
    BY <2>1 DEF Init, TypeOK, News
  <2>3. ASSUME NEW t \in Signatures, NEW n \in News PROVE Owing(t, n) = {}
    BY <2>1 DEF Init, Owing, Notices
  <2>4. \A t \in Signatures : Owing(t, "raised") = {} /\ Owing(t, "resolved") = {}
    BY <2>3 DEF News
  <2>. QED BY <2>1, <2>2, <2>4, FS_EmptySet DEF Init, Balanced, News
<1>2. Inv /\ [Next]_vars => Inv'
  BY TypesKept, BalanceKept
<1>3. Inv => NoticesBalance
  BY DEF Balanced, NoticesBalance
<1>. QED BY <1>1, <1>2, <1>3, PTL DEF Spec
=============================================================================
