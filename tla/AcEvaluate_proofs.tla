------------------------- MODULE AcEvaluate_proofs -------------------------
(* That the loop of evaluate returns the declarative decision, for every       *)
(* catalog, every list of roles and every actor: the loop invariant is         *)
(* inductive, and with it the conclusion of the loop is AcCore's Decide.       *)
EXTENDS AcEvaluate, TLAPS

-----------------------------------------------------------------------------

\* A list of assigned roles is a sequence of them.
LEMMA ListIsSeq ==
    ASSUME NEW l \in Lists
    PROVE  l \in Seq(AssignedRoles)
BY DEF Lists

\* One role contributes an effect.
LEMMA RoleEffectType ==
    ASSUME NEW t \in Tables, NEW k \in Keys
    PROVE  RoleEffect(t, k) \in Effects
BY DEF RoleEffect, Tables, StoredKeys, Effects

\* The resolution of one more table is the resolution before, absorbed as the
\* loop of evaluate does it: the fold and the set agree step by step.
LEMMA ResolveOneMore ==
    ASSUME NEW ts, NEW t, NEW k, RoleEffect(t, k) \in Effects
    PROVE  Resolve(ts \cup {t}, k) = Absorb(Resolve(ts, k), RoleEffect(t, k))
<1> DEFINE es == {RoleEffect(u, k) : u \in ts}
           e == RoleEffect(t, k)
<1>1. {RoleEffect(u, k) : u \in ts \cup {t}} = es \cup {e}
  OBVIOUS
<1>2. Resolve(ts \cup {t}, k) = IF "DENY" \in es \cup {e} THEN "DENY"
                                ELSE IF "ALLOW" \in es \cup {e} THEN "ALLOW" ELSE "NONE"
  BY <1>1 DEF Resolve
<1>3. Resolve(ts, k) = IF "DENY" \in es THEN "DENY"
                       ELSE IF "ALLOW" \in es THEN "ALLOW" ELSE "NONE"
  BY DEF Resolve
<1> HIDE DEF es, e
<1>4. e \in {"ALLOW", "DENY", "NONE"}
  BY DEF e, Effects
<1> QED
  BY <1>2, <1>3, <1>4 DEF Absorb, e

\* Nothing resolves to no allowance.
LEMMA ResolveNothing == \A k : Resolve({}, k) = "NONE"
BY DEF Resolve

\* The tables considered after one more turn.
LEMMA TablesStep ==
    ASSUME NEW n \in Nat \ {0}
    PROVE  TablesBefore(n) = IF input.roles[n].org = input.org
                             THEN TablesBefore(n - 1) \cup {input.roles[n].perm}
                             ELSE TablesBefore(n - 1)
<1>1. 1 .. n = (1 .. n - 1) \cup {n}
  OBVIOUS
<1> QED
  BY <1>1 DEF TablesBefore

-----------------------------------------------------------------------------

\* Every variable keeps its type: the loop never leaves the list of roles.
THEOREM TypeCorrect == Spec => []TypeOK
<1>1. Init => TypeOK
  <2> SUFFICES ASSUME Init PROVE TypeOK
    OBVIOUS
  <2>1. input.roles \in Seq(AssignedRoles)
    BY ListIsSeq DEF Init, Inputs
  <2>2. Len(input.roles) \in Nat
    BY <2>1
  <2> QED
    BY <2>2 DEF Init, TypeOK, Effects
<1>2. TypeOK /\ [Next]_vars => TypeOK'
  <2> SUFFICES ASSUME TypeOK, [Next]_vars PROVE TypeOK'
    OBVIOUS
  <2>0. input.roles \in Seq(AssignedRoles) /\ Len(input.roles) \in Nat
    BY ListIsSeq DEF TypeOK, Inputs
  <2>1. CASE Bypass
    BY <2>1 DEF Bypass, TypeOK, Effects
  <2>2. CASE Consider
    <3> DEFINE r == input.roles[next]
               e == IF r.org = input.org THEN RoleEffect(r.perm, input.key) ELSE "NONE"
    <3>1. next \in 1 .. Len(input.roles)
      BY <2>0, <2>2 DEF Consider, Advance, TypeOK
    <3>2. r \in AssignedRoles
      BY <2>0, <3>1
    <3>3. e \in Effects
      BY <3>2, RoleEffectType DEF TypeOK, Inputs, AssignedRoles, Effects
    <3>4. trace' = Append(trace, e) /\ resolved' = Absorb(resolved, e) /\ next' = next + 1
      BY <2>2 DEF Consider, Advance
    <3> HIDE DEF r, e
    <3>5. trace' \in Seq(Effects)
      BY <3>3, <3>4 DEF TypeOK
    <3>6. resolved' \in Effects
      BY <3>3, <3>4 DEF TypeOK, Absorb, Effects
    <3>7. input' = input /\ decision' = decision
      BY <2>2 DEF Consider, Advance
    <3> QED
      BY <2>0, <3>1, <3>4, <3>5, <3>6, <3>7 DEF TypeOK
  <2>3. CASE Conclude
    BY <2>3 DEF Conclude, TypeOK, Effects
  <2>4. CASE UNCHANGED vars
    BY <2>4 DEF vars, TypeOK
  <2> QED
    BY <2>1, <2>2, <2>3, <2>4 DEF Next
<1> QED
  BY <1>1, <1>2, PTL DEF Spec

\* After every turn the resolved effect is the resolution of the set of the
\* tenant's tables considered so far.
THEOREM LoopCorrect == Spec => []LoopAgrees
<1>1. Init => LoopAgrees
  <2> SUFFICES ASSUME Init PROVE LoopAgrees
    OBVIOUS
  <2>1. next - 1 = 0 /\ 1 .. 0 = {}
    BY DEF Init
  <2>2. TablesBefore(next - 1) = {}
    BY <2>1 DEF TablesBefore
  <2> QED
    BY <2>1, <2>2, ResolveNothing DEF Init, LoopAgrees
<1>2. TypeOK /\ LoopAgrees /\ [Next]_vars => LoopAgrees'
  <2> SUFFICES ASSUME TypeOK, LoopAgrees, [Next]_vars PROVE LoopAgrees'
    OBVIOUS
  <2>0. input.roles \in Seq(AssignedRoles) /\ Len(input.roles) \in Nat
    BY ListIsSeq DEF TypeOK, Inputs
  <2>1. CASE UNCHANGED <<input, next, resolved, trace>>
    BY <2>1 DEF LoopAgrees, TablesBefore
  <2>2. CASE Consider
    <3> DEFINE r == input.roles[next]
               ts == TablesBefore(next - 1)
    <3>1. next \in 1 .. Len(input.roles) /\ next' = next + 1 /\ input' = input
      BY <2>0, <2>2 DEF Consider, Advance, TypeOK
    <3>2. r \in AssignedRoles /\ input.key \in Keys
      BY <2>0, <3>1 DEF TypeOK, Inputs
    <3>3. RoleEffect(r.perm, input.key) \in Effects
      BY <3>2, RoleEffectType DEF AssignedRoles
    <3>4. TablesBefore(next - 1)' = TablesBefore(next)
      BY <3>1 DEF TablesBefore
    <3>5. Len(trace') = Len(trace) + 1
      BY <2>2, <3>3 DEF Consider, Advance, TypeOK
    <3>6. CASE r.org = input.org
      <4>1. TablesBefore(next) = ts \cup {r.perm}
        BY <3>1, <3>6, TablesStep
      <4>2. resolved' = Absorb(resolved, RoleEffect(r.perm, input.key))
        BY <2>2, <3>6 DEF Consider, Advance
      <4> HIDE DEF r, ts
      <4>3. resolved' = Resolve(ts \cup {r.perm}, input.key)
        BY <3>3, <4>2, ResolveOneMore DEF LoopAgrees, ts
      <4>4. Resolve(TablesBefore(next - 1), input.key)'
              = Resolve(TablesBefore(next), input.key)
        BY <3>1, <3>4
      <4> QED
        BY <2>0, <3>1, <3>5, <4>1, <4>3, <4>4 DEF LoopAgrees
    <3>7. CASE r.org # input.org
      <4>1. TablesBefore(next) = ts
        BY <3>1, <3>7, TablesStep
      <4>2. resolved' = Absorb(resolved, "NONE")
        BY <2>2, <3>7 DEF Consider, Advance
      <4>3. resolved' = resolved
        BY <4>2 DEF Absorb
      <4> QED
        BY <3>1, <3>4, <3>5, <4>1, <4>3 DEF LoopAgrees
    <3> QED
      BY <3>6, <3>7
  <2> QED
    BY <2>1, <2>2 DEF Next, Bypass, Conclude, vars
<1> QED
  BY <1>1, <1>2, TypeCorrect, PTL DEF Spec

\* evaluate returns the declarative decision.
THEOREM EvaluateCorrect == Spec => []EvaluateAgrees
<1>1. Init => EvaluateAgrees
  BY DEF Init, EvaluateAgrees
<1>2. TypeOK /\ LoopAgrees /\ EvaluateAgrees /\ [Next]_vars => EvaluateAgrees'
  <2> SUFFICES ASSUME TypeOK, LoopAgrees, EvaluateAgrees, [Next]_vars
               PROVE  EvaluateAgrees'
    OBVIOUS
  <2>0. Len(input.roles) \in Nat
    BY ListIsSeq DEF TypeOK, Inputs
  <2>1. CASE Bypass
    BY <2>1 DEF Bypass, EvaluateAgrees
  <2>2. CASE Consider
    BY <2>2 DEF Consider, Advance, EvaluateAgrees
  <2>3. CASE Conclude
    <3>1. next - 1 = Len(input.roles)
      BY <2>0, <2>3 DEF Conclude, TypeOK
    <3>2. resolved = Resolve(TablesBefore(Len(input.roles)), input.key)
      BY <3>1 DEF LoopAgrees
    <3>3. decision' = Decide(TablesBefore(Len(input.roles)), input.key, InTeam)
      BY <2>3, <3>2 DEF Conclude, Decide
    <3>4. input' = input /\ ~input.wildcard
      BY <2>3 DEF Conclude
    <3> QED
      <4>1. InTeam <=> input.team \in input.teams
        BY TeamAssumption DEF TypeOK, Inputs, InTeam
      <4> QED
        BY <3>3, <3>4, <4>1 DEF EvaluateAgrees, TablesBefore
  <2>4. CASE UNCHANGED vars
    BY <2>4 DEF vars, EvaluateAgrees, TablesBefore
  <2> QED
    BY <2>1, <2>2, <2>3, <2>4 DEF Next
<1> QED
  BY <1>1, <1>2, TypeCorrect, LoopCorrect, PTL DEF Spec

-----------------------------------------------------------------------------
(* The trace. *)

Entries(s) == {s[j] : j \in 1 .. Len(s)}

LEMMA EntriesAppend ==
    ASSUME NEW s \in Seq(Effects), NEW e
    PROVE  Entries(Append(s, e)) = Entries(s) \cup {e}
<1>1. Len(s) \in Nat /\ Len(Append(s, e)) = Len(s) + 1
  OBVIOUS
<1>2. 1 .. (Len(s) + 1) = (1 .. Len(s)) \cup {Len(s) + 1}
  BY <1>1
<1>3. /\ \A j \in 1 .. Len(s) : Append(s, e)[j] = s[j]
      /\ Append(s, e)[Len(s) + 1] = e
  OBVIOUS
<1> QED
  BY <1>1, <1>2, <1>3 DEF Entries

\* What the entries so far say of the effect resolved so far, and the effect
\* resolved of the decision.
TraceInv ==
    /\ resolved = "DENY" <=> "DENY" \in Entries(trace)
    /\ resolved = "ALLOW" => "ALLOW" \in Entries(trace)
    /\ decision # Pending /\ ~input.wildcard =>
         /\ decision = "DENY" <=> resolved = "DENY"
         /\ decision = "ALLOW" => resolved = "ALLOW"

\* The trace that evaluate returns explains its decision, for every list of
\* roles: a denial is in the trace exactly when it is the decision, and an
\* allowance is in the trace of what is allowed.
THEOREM TraceCorrect == Spec => []TraceExplains
<1>1. Init => TraceInv
  <2> SUFFICES ASSUME Init PROVE TraceInv
    OBVIOUS
  <2>1. Entries(trace) = {}
    BY DEF Init, Entries
  <2> QED
    BY <2>1 DEF Init, TraceInv
<1>2. TypeOK /\ TraceInv /\ [Next]_vars => TraceInv'
  <2> SUFFICES ASSUME TypeOK, TraceInv, [Next]_vars PROVE TraceInv'
    OBVIOUS
  <2>1. CASE Bypass
    BY <2>1 DEF Bypass, TraceInv
  <2>2. CASE Consider
    <3>1. PICK e : /\ trace' = Append(trace, e) /\ resolved' = Absorb(resolved, e)
                   /\ UNCHANGED <<input, decision>> /\ decision = Pending
      BY <2>2 DEF Consider
    <3>2. Entries(trace') = Entries(trace) \cup {e}
      BY <3>1, EntriesAppend DEF TypeOK
    <3> QED
      BY <3>1, <3>2 DEF TraceInv, TypeOK, Absorb, Effects
  <2>3. CASE Conclude
    BY <2>3 DEF Conclude, TraceInv
  <2>4. CASE UNCHANGED vars
    BY <2>4 DEF vars, TraceInv
  <2> QED
    BY <2>1, <2>2, <2>3, <2>4 DEF Next
<1>3. TraceInv => TraceExplains
  BY DEF TraceInv, TraceExplains, Entries
<1> QED
  BY <1>1, <1>2, <1>3, TypeCorrect, PTL DEF Spec
=============================================================================
