------------------------- MODULE StreamSlotsProofs -------------------------
(***************************************************************************)
(* Theorems about the stream slots, for any number of slots, pools, routes *)
(* and jobs: a slot that is offered to many dispatchers has one taker at a *)
(* time, while control has stayed attached; the streams a session counts   *)
(* never fall below zero; a job is in one place until it is finished; and  *)
(* with a single route no slot is lost.                                    *)
(*                                                                         *)
(* Each part has its inductive invariant: Inv, TypeInv, JobsInv, FreeInv.  *)
(***************************************************************************)
EXTENDS StreamSlots, FiniteSetTheorems, TLAPS

\* A dispatcher's record, whatever the offer.
DispatcherOK(p) ==
  \E pc, o, j : dispatcher[p] = [pc |-> pc, offer |-> o, job |-> j]

SlotTypes ==
  /\ generation \in [Slots -> Nat] /\ claimed \in [Slots -> BOOLEAN]
  /\ active = [s \in Slots |-> active[s]]
  /\ dispatcher = [p \in Pools |-> dispatcher[p]] /\ \A p \in Pools : DispatcherOK(p)
  /\ alive \in BOOLEAN /\ control_attached \in BOOLEAN /\ detaches \in Nat
  /\ detaches = 0 => control_attached

\* Between the two loads of a claim the flag is the dispatcher's, if the generation has
\* not moved on: Holders alone is not kept by Recheck.
Swapped(s, p) ==
  /\ dispatcher[p].pc = "swapped"
  /\ dispatcher[p].offer.slot = s /\ dispatcher[p].offer.gen = generation[s]

Owns(s, p) ==
  dispatcher[p].pc \in {"owned", "releasing"} /\ dispatcher[p].offer.slot = s

Takers(s) == Holders(s) \cup {<<"swapped", p>> : p \in {p \in Pools : Swapped(s, p)}}

\* One taker at most, whose slot is claimed.
OneTaker(s) ==
  /\ \A x, y \in Takers(s) : x = y
  /\ Takers(s) # {} => claimed[s]

\* No dispatcher holds an offer of a generation to come, and one that owns a slot owns
\* its present generation.
GenerationOK(s) ==
  \A p \in Pools :
    /\ dispatcher[p].pc # "idle" /\ dispatcher[p].offer.slot = s
         => dispatcher[p].offer.gen \in Nat /\ dispatcher[p].offer.gen <= generation[s]
    /\ Owns(s, p) => dispatcher[p].offer.gen = generation[s]

SlotOK(s) == OneTaker(s) /\ GenerationOK(s)

\* Nothing is claimed of a socket that is lost, or once control was detached: a detached
\* control takes claimed slots back while dispatchers still own them.
Inv ==
  /\ detaches \in Nat
  /\ alive /\ detaches = 0 => SlotTypes /\ \A s \in Slots : SlotOK(s)

-----------------------------------------------------------------------------
(* Takers                                                                  *)

LEMMA TakerKinds ==
  ASSUME NEW s \in Slots, SlotTypes
  PROVE  \A x : x \in Takers(s) <=>
           \/ \E p \in Pools : x = <<"dispatcher", p>> /\ Owns(s, p)
           \/ \E p \in Pools : x = <<"swapped", p>> /\ Swapped(s, p)
           \/ \E a \in flight : x = <<"flight", a>> /\ a.slot = s
           \/ x = <<"admitted", s>> /\ admitted # None /\ admitted.slot = s
           \/ x = <<"active", s>> /\ active[s] # None
  BY DEF Takers, Holders, Owns, ActiveSlots

LEMMA TakersAre ==
  ASSUME NEW s \in Slots, SlotTypes
  PROVE  /\ \A p \in Pools : Owns(s, p) => <<"dispatcher", p>> \in Takers(s)
         /\ \A p \in Pools : Swapped(s, p) => <<"swapped", p>> \in Takers(s)
         /\ \A a \in flight : a.slot = s => <<"flight", a>> \in Takers(s)
         /\ admitted # None /\ admitted.slot = s => <<"admitted", s>> \in Takers(s)
         /\ active[s] # None => <<"active", s>> \in Takers(s)
  BY DEF Takers, Holders, Owns, ActiveSlots

LEMMA TakerKindsNext ==
  ASSUME NEW s \in Slots, SlotTypes'
  PROVE  \A x : x \in Takers(s)' <=>
           \/ \E p \in Pools : x = <<"dispatcher", p>> /\ Owns(s, p)'
           \/ \E p \in Pools : x = <<"swapped", p>> /\ Swapped(s, p)'
           \/ \E a \in flight' : x = <<"flight", a>> /\ a.slot = s
           \/ x = <<"admitted", s>> /\ admitted' # None /\ admitted'.slot = s
           \/ x = <<"active", s>> /\ active'[s] # None
  BY DEF Takers, Holders, Owns, ActiveSlots

\* A slot's takers keep what they have when nobody joins them.
LEMMA FewerTakers ==
  ASSUME NEW s \in Slots, OneTaker(s), Takers(s)' \subseteq Takers(s), claimed'[s] = claimed[s]
  PROVE  OneTaker(s)'
  BY DEF OneTaker

\* One that hands the slot on hands on its claim too.
LEMMA HandedOn ==
  ASSUME NEW s \in Slots, OneTaker(s), NEW x \in Takers(s), NEW y, Takers(s)' \subseteq {y},
         claimed'[s] = claimed[s]
  PROVE  OneTaker(s)'
  BY DEF OneTaker

\* Who takes a slot is alone.
LEMMA DispatcherAlone ==
  ASSUME SlotTypes, NEW s \in Slots, OneTaker(s), NEW p \in Pools, Owns(s, p) \/ Swapped(s, p)
  PROVE  /\ \A q \in Pools \ {p} : ~ Owns(s, q) /\ ~ Swapped(s, q)
         /\ \A a \in flight : a.slot # s
         /\ admitted # None => admitted.slot # s
         /\ active[s] = None /\ claimed[s]
  <1>1. CASE Owns(s, p)
    <2>1. <<"dispatcher", p>> \in Takers(s)
      BY <1>1, TakersAre
    <2>2. \A y \in Takers(s) : y = <<"dispatcher", p>>
      BY <2>1 DEF OneTaker
    <2>3. \A q \in Pools \ {p} : ~ Owns(s, q) /\ ~ Swapped(s, q)
      BY <2>2, TakersAre
    <2>4. /\ \A a \in flight : a.slot # s
          /\ admitted # None => admitted.slot # s
          /\ active[s] = None
      BY <2>2, TakersAre
    <2> QED  BY <2>1, <2>3, <2>4 DEF OneTaker
  <1>2. CASE Swapped(s, p)
    <2>1. <<"swapped", p>> \in Takers(s)
      BY <1>2, TakersAre
    <2>2. \A y \in Takers(s) : y = <<"swapped", p>>
      BY <2>1 DEF OneTaker
    <2>3. \A q \in Pools \ {p} : ~ Owns(s, q) /\ ~ Swapped(s, q)
      BY <2>2, TakersAre
    <2>4. /\ \A a \in flight : a.slot # s
          /\ admitted # None => admitted.slot # s
          /\ active[s] = None
      BY <2>2, TakersAre
    <2> QED  BY <2>1, <2>3, <2>4 DEF OneTaker
  <1> QED  BY <1>1, <1>2

LEMMA FlightAlone ==
  ASSUME SlotTypes, NEW s \in Slots, OneTaker(s), NEW a \in flight, a.slot = s
  PROVE  /\ \A q \in Pools : ~ Owns(s, q) /\ ~ Swapped(s, q)
         /\ \A b \in flight \ {a} : b.slot # s
         /\ admitted # None => admitted.slot # s
         /\ active[s] = None /\ claimed[s]
  <1>1. <<"flight", a>> \in Takers(s)
    BY TakersAre
  <1>2. \A y \in Takers(s) : y = <<"flight", a>>
    BY <1>1 DEF OneTaker
  <1>3. \A q \in Pools : ~ Owns(s, q) /\ ~ Swapped(s, q)
    BY <1>2, TakersAre
  <1>4. \A b \in flight \ {a} : b.slot # s
    BY <1>2, TakersAre
  <1>5. /\ admitted # None => admitted.slot # s
        /\ active[s] = None
    BY <1>2, TakersAre
  <1> QED  BY <1>1, <1>3, <1>4, <1>5 DEF OneTaker

LEMMA SocketAlone ==
  ASSUME SlotTypes, NEW s \in Slots, OneTaker(s),
         active[s] # None \/ (admitted # None /\ admitted.slot = s)
  PROVE  /\ \A q \in Pools : ~ Owns(s, q) /\ ~ Swapped(s, q)
         /\ \A a \in flight : a.slot # s
         /\ active[s] # None => (admitted # None => admitted.slot # s)
         /\ claimed[s]
  <1>1. CASE active[s] # None
    <2>1. <<"active", s>> \in Takers(s)
      BY <1>1, TakersAre
    <2>2. \A y \in Takers(s) : y = <<"active", s>>
      BY <2>1 DEF OneTaker
    <2>3. \A q \in Pools : ~ Owns(s, q) /\ ~ Swapped(s, q)
      BY <2>2, TakersAre
    <2>4. (\A a \in flight : a.slot # s) /\ (admitted # None => admitted.slot # s)
      BY <2>2, TakersAre
    <2> QED  BY <2>1, <2>3, <2>4 DEF OneTaker
  <1>2. CASE admitted # None /\ admitted.slot = s
    <2>1. <<"admitted", s>> \in Takers(s)
      BY <1>2, TakersAre
    <2>2. \A y \in Takers(s) : y = <<"admitted", s>>
      BY <2>1 DEF OneTaker
    <2>3. \A q \in Pools : ~ Owns(s, q) /\ ~ Swapped(s, q)
      BY <2>2, TakersAre
    <2>4. (\A a \in flight : a.slot # s) /\ active[s] = None
      BY <2>2, TakersAre
    <2> QED  BY <2>1, <2>3, <2>4 DEF OneTaker
  <1> QED  BY <1>1, <1>2

-----------------------------------------------------------------------------
(* A dispatcher's step                                                     *)

\* What a dispatcher's step leaves alone.
OnlyDispatcher(p) ==
  /\ UNCHANGED <<generation, active, alive, admitted, control_attached, detaches>>
  /\ \E pc, o, j : dispatcher' = [dispatcher EXCEPT ![p] = [pc |-> pc, offer |-> o, job |-> j]]

\* The step to another program point with the same offer and job.
LEMMA SetPoint ==
  ASSUME NEW p \in Pools, SlotTypes, NEW v, dispatcher' = [dispatcher EXCEPT ![p].pc = v]
  PROVE  dispatcher' = [dispatcher EXCEPT ![p] =
                          [pc |-> v, offer |-> dispatcher[p].offer, job |-> dispatcher[p].job]]
  <1>1. DispatcherOK(p)
    BY DEF SlotTypes
  <1>2. PICK pc, o, j : dispatcher[p] = [pc |-> pc, offer |-> o, job |-> j]
    BY <1>1 DEF DispatcherOK
  <1>3. [dispatcher[p] EXCEPT !.pc = v] = [pc |-> v, offer |-> o, job |-> j]
    BY <1>2
  <1>4. dispatcher' = [dispatcher EXCEPT ![p] = [dispatcher[p] EXCEPT !.pc = v]]
    OBVIOUS
  <1> QED  BY <1>2, <1>3, <1>4

LEMMA DispatcherTypes ==
  ASSUME SlotTypes, NEW p \in Pools, OnlyDispatcher(p), claimed' \in [Slots -> BOOLEAN]
  PROVE  /\ SlotTypes'
         /\ \A q \in Pools \ {p} : dispatcher'[q] = dispatcher[q]
  <1> PICK pc, o, j : dispatcher' = [dispatcher EXCEPT ![p] = [pc |-> pc, offer |-> o, job |-> j]]
    BY DEF OnlyDispatcher
  <1>1. dispatcher'[p] = [pc |-> pc, offer |-> o, job |-> j]
    BY DEF SlotTypes
  <1>2. dispatcher' = [q \in Pools |-> dispatcher'[q]] /\ \A q \in Pools \ {p} : dispatcher'[q] = dispatcher[q]
    BY DEF SlotTypes
  <1>3. \A q \in Pools : DispatcherOK(q)'
    <2> TAKE q \in Pools
    <2>1. CASE q = p
      BY <1>1, <2>1 DEF DispatcherOK
    <2>2. CASE q # p
      <3>1. DispatcherOK(q) /\ dispatcher'[q] = dispatcher[q]
        BY <1>2, <2>2 DEF SlotTypes
      <3> QED  BY <3>1 DEF DispatcherOK
    <2> QED  BY <2>1, <2>2
  <1> QED  BY <1>2, <1>3 DEF SlotTypes, OnlyDispatcher

\* The other dispatchers keep their offers, owned or not.
LEMMA OtherDispatchers ==
  ASSUME SlotTypes, NEW p \in Pools, OnlyDispatcher(p), claimed' \in [Slots -> BOOLEAN], NEW s \in Slots
  PROVE  \A q \in Pools \ {p} : (Owns(s, q)' <=> Owns(s, q)) /\ (Swapped(s, q)' <=> Swapped(s, q))
  BY DispatcherTypes DEF OnlyDispatcher, Owns, Swapped

\* A dispatcher that lets its slot go, or never had it, takes nothing from the others.
LEMMA DispatcherLeaves ==
  ASSUME SlotTypes, NEW p \in Pools, OnlyDispatcher(p), claimed' \in [Slots -> BOOLEAN],
         NEW s \in Slots, SlotOK(s),
         claimed'[s] = claimed[s], \A a \in flight' : a.slot = s => a \in flight,
         ~ Owns(s, p)', ~ Swapped(s, p)',
         dispatcher'[p].pc # "idle" /\ dispatcher'[p].offer.slot = s
           => dispatcher'[p].offer.gen = generation[s]
  PROVE  SlotOK(s)'
  <1>1. SlotTypes' /\ \A q \in Pools \ {p} : dispatcher'[q] = dispatcher[q]
    BY DispatcherTypes DEF SlotTypes
  <1>2. \A q \in Pools \ {p} : (Owns(s, q)' <=> Owns(s, q)) /\ (Swapped(s, q)' <=> Swapped(s, q))
    BY OtherDispatchers DEF SlotTypes
  <1>3. Takers(s)' \subseteq Takers(s)
    <2>1. ASSUME NEW x \in Takers(s)' PROVE x \in Takers(s)
      BY <1>1, <1>2, TakerKinds, TakerKindsNext DEF OnlyDispatcher
    <2> QED  BY <2>1
  <1>4. OneTaker(s)'
    BY <1>3, FewerTakers DEF SlotOK
  <1>5. GenerationOK(s)'
    <2>1. generation'[s] = generation[s] /\ generation[s] \in Nat
      BY DEF OnlyDispatcher, SlotTypes
    <2> QED  BY <1>1, <1>2, <2>1 DEF SlotOK, GenerationOK
  <1> QED  BY <1>4, <1>5 DEF SlotOK

LEMMA PickInv ==
  ASSUME SlotTypes, \A s \in Slots : SlotOK(s), NEW p \in Pools, NEW j \in Jobs, Pick(p, j)
  PROVE  SlotTypes' /\ \A s \in Slots : SlotOK(s)'
  <1> DEFINE o == Head(offers[p])
  <1>1. UNCHANGED <<generation, claimed, active, alive, admitted, control_attached, detaches, flight>>
    BY DEF Pick, dispatchFrame, slotVars, socketVars, controlVars
  <1>2. claimed' \in [Slots -> BOOLEAN] /\ dispatcher[p] = Idle
    BY <1>1 DEF SlotTypes, Pick
  <1>3. CASE Current(o)
    <2>1. dispatcher' = [dispatcher EXCEPT ![p] = [pc |-> "checked", offer |-> o, job |-> j]]
      BY <1>3 DEF Pick
    <2>2. OnlyDispatcher(p)
      BY <1>1, <2>1 DEF OnlyDispatcher
    <2>3. dispatcher'[p] = [pc |-> "checked", offer |-> o, job |-> j]
      BY <2>1 DEF SlotTypes
    <2>4. ASSUME NEW s \in Slots PROVE SlotOK(s)'
      <3>1. ~ Owns(s, p)' /\ ~ Swapped(s, p)'
        BY <2>3 DEF Owns, Swapped
      <3>2. dispatcher'[p].offer.slot = s => dispatcher'[p].offer.gen = generation[s]
        BY <1>3, <2>3 DEF Current
      <3> QED  BY <1>1, <1>2, <2>2, <3>1, <3>2, DispatcherLeaves
    <2> QED  BY <1>2, <2>2, <2>4, DispatcherTypes
  <1>4. CASE ~ Current(o)
    <2>1. dispatcher' = dispatcher
      BY <1>4 DEF Pick
    <2>2. dispatcher' = [dispatcher EXCEPT ![p] = [pc |-> "idle", offer |-> None, job |-> None]]
      BY <1>2, <2>1 DEF Idle, SlotTypes
    <2>3. OnlyDispatcher(p)
      BY <1>1, <2>2 DEF OnlyDispatcher
    <2>4. dispatcher'[p].pc = "idle"
      BY <1>2, <2>1 DEF Idle
    <2>5. ASSUME NEW s \in Slots PROVE SlotOK(s)'
      <3>1. ~ Owns(s, p)' /\ ~ Swapped(s, p)'
        BY <2>4 DEF Owns, Swapped
      <3> QED  BY <1>1, <1>2, <2>3, <2>4, <3>1, DispatcherLeaves
    <2> QED  BY <1>2, <2>3, <2>5, DispatcherTypes
  <1> QED  BY <1>3, <1>4

\* A dispatcher that returns to its loop with the job in its queue.
LEMMA RequeueInv ==
  ASSUME SlotTypes, \A s \in Slots : SlotOK(s), NEW p \in Pools, Requeue(p),
         UNCHANGED <<generation, claimed, active, alive, admitted, control_attached, detaches, flight>>
  PROVE  SlotTypes' /\ \A s \in Slots : SlotOK(s)'
  <1>1. dispatcher' = [dispatcher EXCEPT ![p] = [pc |-> "idle", offer |-> None, job |-> None]]
    BY DEF Requeue, Idle
  <1>2. OnlyDispatcher(p) /\ claimed' \in [Slots -> BOOLEAN]
    BY <1>1 DEF OnlyDispatcher, SlotTypes
  <1>3. dispatcher'[p].pc = "idle"
    BY <1>1 DEF SlotTypes
  <1>4. ASSUME NEW s \in Slots PROVE SlotOK(s)'
    <2>1. ~ Owns(s, p)' /\ ~ Swapped(s, p)'
      BY <1>3 DEF Owns, Swapped
    <2> QED  BY <1>2, <1>3, <2>1, DispatcherLeaves
  <1> QED  BY <1>2, <1>4, DispatcherTypes

LEMMA ClaimInv ==
  ASSUME SlotTypes, \A s \in Slots : SlotOK(s), NEW p \in Pools, Claim(p)
  PROVE  SlotTypes' /\ \A s \in Slots : SlotOK(s)'
  <1> DEFINE o == dispatcher[p].offer
  <1>1. /\ UNCHANGED <<generation, active, alive, admitted, control_attached, detaches, flight>>
        /\ dispatcher[p].pc = "checked"
    BY DEF Claim, dispatchFrame, socketVars, controlVars
  <1>2. CASE claimed[o.slot]
    BY <1>1, <1>2, RequeueInv DEF Claim
  <1>3. CASE ~ claimed[o.slot]
    <2>1. /\ claimed' = [claimed EXCEPT ![o.slot] = TRUE]
          /\ dispatcher' = [dispatcher EXCEPT ![p].pc = "swapped"]
      BY <1>3 DEF Claim
    <2>2. dispatcher' = [dispatcher EXCEPT ![p] = [pc |-> "swapped", offer |-> o, job |-> dispatcher[p].job]]
      BY <2>1, SetPoint
    <2>3. claimed' \in [Slots -> BOOLEAN]
      BY <2>1 DEF SlotTypes
    <2>4. OnlyDispatcher(p) /\ claimed' \in [Slots -> BOOLEAN]
      BY <1>1, <2>2, <2>3 DEF OnlyDispatcher
    <2>5. dispatcher'[p] = [pc |-> "swapped", offer |-> o, job |-> dispatcher[p].job]
      BY <2>2 DEF SlotTypes
    <2>6. SlotTypes' /\ \A q \in Pools \ {p} : dispatcher'[q] = dispatcher[q]
      BY <2>4, DispatcherTypes
    <2>7. ASSUME NEW s \in Slots PROVE SlotOK(s)'
      <3>1. GenerationOK(s) /\ generation' = generation
        BY <1>1 DEF SlotOK
      <3>2. GenerationOK(s)'
        BY <1>1, <2>5, <2>6, <3>1 DEF GenerationOK, Owns
      <3>3. CASE o.slot = s
        <4>1. Takers(s) = {}
          BY <1>3, <3>3 DEF SlotOK, OneTaker
        <4>2. \A q \in Pools \ {p} : ~ Owns(s, q)' /\ ~ Swapped(s, q)'
          BY <2>4, <4>1, OtherDispatchers, TakersAre
        <4>3. ~ Owns(s, p)'
          BY <2>5 DEF Owns
        <4>4. /\ \A a \in flight' : a.slot # s
              /\ admitted' # None => admitted'.slot # s
              /\ active'[s] = None
          BY <1>1, <4>1, TakersAre
        <4>5. Takers(s)' \subseteq {<<"swapped", p>>}
          BY <2>6, <4>2, <4>3, <4>4, TakerKindsNext
        <4>6. claimed'[s] = TRUE
          BY <2>1, <3>3 DEF SlotTypes
        <4>7. OneTaker(s)'
          BY <4>5, <4>6 DEF OneTaker
        <4> QED  BY <3>2, <4>7 DEF SlotOK
      <3>4. CASE o.slot # s
        <4>1. ~ Owns(s, p)' /\ ~ Swapped(s, p)' /\ dispatcher'[p].offer.slot # s
          BY <2>5, <3>4 DEF Owns, Swapped
        <4>2. claimed'[s] = claimed[s]
          BY <2>1, <3>4 DEF SlotTypes
        <4> QED  BY <1>1, <2>4, <4>1, <4>2, DispatcherLeaves
      <3> QED  BY <3>3, <3>4
    <2> QED  BY <2>6, <2>7
  <1> QED  BY <1>2, <1>3

LEMMA RecheckInv ==
  ASSUME SlotTypes, \A s \in Slots : SlotOK(s), NEW p \in Pools, Recheck(p)
  PROVE  SlotTypes' /\ \A s \in Slots : SlotOK(s)'
  <1> DEFINE o == dispatcher[p].offer
  <1>1. /\ UNCHANGED <<generation, claimed, active, alive, admitted, control_attached, detaches, flight>>
        /\ dispatcher[p].pc = "swapped"
    BY DEF Recheck, dispatchFrame, socketVars, controlVars, slotVars
  <1>2. CASE ~ Current(o)
    BY <1>1, <1>2, RequeueInv DEF Recheck
  <1>3. CASE Current(o)
    <2>1. dispatcher' = [dispatcher EXCEPT ![p].pc = "owned"]
      BY <1>3 DEF Recheck
    <2>3. dispatcher' = [dispatcher EXCEPT ![p] = [pc |-> "owned", offer |-> o, job |-> dispatcher[p].job]]
      BY <2>1, SetPoint
    <2>4. OnlyDispatcher(p) /\ claimed' \in [Slots -> BOOLEAN]
      BY <1>1, <2>3 DEF OnlyDispatcher, SlotTypes
    <2>5. dispatcher'[p] = [pc |-> "owned", offer |-> o, job |-> dispatcher[p].job]
      BY <2>3 DEF SlotTypes
    <2>6. SlotTypes' /\ \A q \in Pools \ {p} : dispatcher'[q] = dispatcher[q]
      BY <2>4, DispatcherTypes
    <2>7. ASSUME NEW s \in Slots PROVE SlotOK(s)'
      <3>1. GenerationOK(s) /\ OneTaker(s) /\ generation' = generation
        BY <1>1 DEF SlotOK
      <3>2. CASE o.slot = s
        <4>1. Swapped(s, p)
          BY <1>1, <1>3, <3>2 DEF Swapped, Current
        <4>2. GenerationOK(s)'
          BY <1>1, <2>5, <2>6, <3>1, <4>1 DEF GenerationOK, Owns, Swapped
        <4>3. \A q \in Pools \ {p} : ~ Owns(s, q)' /\ ~ Swapped(s, q)'
          BY <2>4, <3>1, <4>1, OtherDispatchers, DispatcherAlone
        <4>4. ~ Swapped(s, p)'
          BY <2>5 DEF Swapped
        <4>5. /\ \A a \in flight' : a.slot # s
              /\ admitted' # None => admitted'.slot # s
              /\ active'[s] = None /\ claimed'[s]
          BY <1>1, <3>1, <4>1, DispatcherAlone
        <4>6. Takers(s)' \subseteq {<<"dispatcher", p>>}
          BY <2>6, <4>3, <4>4, <4>5, TakerKindsNext
        <4>7. OneTaker(s)'
          BY <4>5, <4>6 DEF OneTaker
        <4> QED  BY <4>2, <4>7 DEF SlotOK
      <3>3. CASE o.slot # s
        <4>1. ~ Owns(s, p)' /\ ~ Swapped(s, p)' /\ dispatcher'[p].offer.slot # s
          BY <2>5, <3>3 DEF Owns, Swapped
        <4> QED  BY <1>1, <2>4, <4>1, DispatcherLeaves
      <3> QED  BY <3>2, <3>3
    <2> QED  BY <2>6, <2>7
  <1> QED  BY <1>2, <1>3

LEMMA AbandonInv ==
  ASSUME SlotTypes, \A s \in Slots : SlotOK(s), NEW p \in Pools, Abandon(p)
  PROVE  SlotTypes' /\ \A s \in Slots : SlotOK(s)'
  <1> DEFINE o == dispatcher[p].offer
  <1>1. /\ UNCHANGED <<generation, claimed, active, alive, admitted, control_attached, detaches, flight>>
        /\ dispatcher[p].pc = "owned"
    BY DEF Abandon, dispatchFrame, socketVars, controlVars, slotVars
  <1>2. claimed' \in [Slots -> BOOLEAN]
    BY <1>1 DEF SlotTypes
  <1>3. CASE Current(o)
    <2>1. dispatcher' = [dispatcher EXCEPT ![p].pc = "releasing"]
      BY <1>3 DEF Abandon
    <2>2. dispatcher' = [dispatcher EXCEPT ![p] = [pc |-> "releasing", offer |-> o, job |-> dispatcher[p].job]]
      BY <2>1, SetPoint
    <2>3. OnlyDispatcher(p)
      BY <1>1, <2>2 DEF OnlyDispatcher
    <2>4. dispatcher'[p] = [pc |-> "releasing", offer |-> o, job |-> dispatcher[p].job]
      BY <2>2 DEF SlotTypes
    <2>5. SlotTypes' /\ \A q \in Pools \ {p} : dispatcher'[q] = dispatcher[q]
      BY <1>2, <2>3, DispatcherTypes
    <2>6. ASSUME NEW s \in Slots PROVE SlotOK(s)'
      <3>1. GenerationOK(s) /\ OneTaker(s)
        BY DEF SlotOK
      <3>2. \A q \in Pools : (Owns(s, q)' <=> Owns(s, q)) /\ (Swapped(s, q)' <=> Swapped(s, q))
        BY <1>1, <2>4, <2>5 DEF Owns, Swapped
      <3>3. GenerationOK(s)'
        BY <1>1, <2>4, <2>5, <3>1, <3>2 DEF GenerationOK
      <3>4. Takers(s)' \subseteq Takers(s)
        <4>1. ASSUME NEW x \in Takers(s)' PROVE x \in Takers(s)
          BY <1>1, <2>5, <3>2, TakerKinds, TakerKindsNext
        <4> QED  BY <4>1
      <3> QED  BY <1>1, <3>1, <3>3, <3>4, FewerTakers DEF SlotOK
    <2> QED  BY <2>5, <2>6
  <1>4. CASE ~ Current(o)
    <2>1. dispatcher' = [dispatcher EXCEPT ![p] = [pc |-> "idle", offer |-> None, job |-> None]]
      BY <1>4 DEF Abandon, Idle
    <2>2. OnlyDispatcher(p) /\ dispatcher'[p].pc = "idle"
      BY <1>1, <2>1 DEF OnlyDispatcher, SlotTypes
    <2>3. ASSUME NEW s \in Slots PROVE SlotOK(s)'
      <3>1. ~ Owns(s, p)' /\ ~ Swapped(s, p)'
        BY <2>2 DEF Owns, Swapped
      <3> QED  BY <1>1, <1>2, <2>2, <3>1, DispatcherLeaves
    <2> QED  BY <1>2, <2>2, <2>3, DispatcherTypes
  <1> QED  BY <1>3, <1>4

LEMMA ReleaseInv ==
  ASSUME SlotTypes, \A s \in Slots : SlotOK(s), NEW p \in Pools, Release(p)
  PROVE  SlotTypes' /\ \A s \in Slots : SlotOK(s)'
  <1> DEFINE o == dispatcher[p].offer
  <1>1. /\ UNCHANGED <<generation, active, alive, admitted, control_attached, detaches, flight>>
        /\ dispatcher[p].pc = "releasing"
        /\ claimed' = [claimed EXCEPT ![o.slot] = FALSE]
    BY DEF Release, dispatchFrame, socketVars, controlVars
  <1>2. claimed' \in [Slots -> BOOLEAN]
    BY <1>1 DEF SlotTypes
  <1>3. dispatcher' = [dispatcher EXCEPT ![p] = [pc |-> "idle", offer |-> None, job |-> None]]
    BY DEF Release, Idle
  <1>4. OnlyDispatcher(p)
    BY <1>1, <1>3 DEF OnlyDispatcher
  <1>5. SlotTypes' /\ \A q \in Pools \ {p} : dispatcher'[q] = dispatcher[q]
    BY <1>2, <1>4, DispatcherTypes
  <1>6. dispatcher'[p].pc = "idle"
    BY <1>3 DEF SlotTypes
  <1>7. ASSUME NEW s \in Slots PROVE SlotOK(s)'
    <2>1. ~ Owns(s, p)' /\ ~ Swapped(s, p)'
      BY <1>6 DEF Owns, Swapped
    <2>2. GenerationOK(s) /\ OneTaker(s)
      BY DEF SlotOK
    <2>3. CASE o.slot = s
      <3>1. Owns(s, p)
        BY <1>1, <2>3 DEF Owns
      <3>2. \A q \in Pools : ~ Owns(s, q)' /\ ~ Swapped(s, q)'
        BY <1>2, <1>4, <2>1, <2>2, <3>1, OtherDispatchers, DispatcherAlone
      <3>3. /\ \A a \in flight' : a.slot # s
            /\ admitted' # None => admitted'.slot # s
            /\ active'[s] = None
        BY <1>1, <2>2, <3>1, DispatcherAlone
      <3>4. Takers(s)' = {}
        BY <1>5, <3>2, <3>3, TakerKindsNext
      <3>5. GenerationOK(s)'
        BY <1>1, <1>5, <1>6, <2>1, <2>2, <3>2 DEF GenerationOK
      <3> QED  BY <3>4, <3>5 DEF SlotOK, OneTaker
    <2>4. CASE o.slot # s
      <3>1. claimed'[s] = claimed[s]
        BY <1>1, <2>4 DEF SlotTypes
      <3> QED  BY <1>1, <1>2, <1>4, <1>6, <2>1, <3>1, DispatcherLeaves
    <2> QED  BY <2>3, <2>4
  <1> QED  BY <1>5, <1>7

LEMMA AssignInv ==
  ASSUME SlotTypes, \A s \in Slots : SlotOK(s), NEW p \in Pools, Assign(p)
  PROVE  SlotTypes' /\ \A s \in Slots : SlotOK(s)'
  <1> DEFINE o == dispatcher[p].offer
             a == [slot |-> o.slot, route |-> o.route, gen |-> o.gen, job |-> dispatcher[p].job]
  <1>1. /\ UNCHANGED <<generation, claimed, active, alive, admitted, control_attached, detaches>>
        /\ dispatcher[p].pc = "owned"
    BY DEF Assign, dispatchFrame, socketVars, controlVars, slotVars
  <1>2. CASE ~ alive
    BY <1>1, <1>2, RequeueInv DEF Assign
  <1>3. CASE alive
    <2>1. /\ flight' = flight \cup {a}
          /\ dispatcher' = [dispatcher EXCEPT ![p] = [pc |-> "idle", offer |-> None, job |-> None]]
      BY <1>3 DEF Assign, Idle
    <2>2. a.slot = o.slot
      OBVIOUS
    <2> HIDE DEF a
    <2>3. OnlyDispatcher(p) /\ claimed' \in [Slots -> BOOLEAN]
      BY <1>1, <2>1 DEF OnlyDispatcher, SlotTypes
    <2>4. SlotTypes' /\ \A q \in Pools \ {p} : dispatcher'[q] = dispatcher[q]
      BY <2>3, DispatcherTypes
    <2>5. dispatcher'[p].pc = "idle"
      BY <2>1 DEF SlotTypes
    <2>6. ASSUME NEW s \in Slots PROVE SlotOK(s)'
      <3>1. ~ Owns(s, p)' /\ ~ Swapped(s, p)'
        BY <2>5 DEF Owns, Swapped
      <3>2. GenerationOK(s) /\ OneTaker(s)
        BY DEF SlotOK
      <3>3. CASE o.slot = s
        <4>1. Owns(s, p)
          BY <1>1, <3>3 DEF Owns
        <4>2. \A q \in Pools : ~ Owns(s, q)' /\ ~ Swapped(s, q)'
          BY <2>3, <3>1, <3>2, <4>1, OtherDispatchers, DispatcherAlone
        <4>3. /\ \A b \in flight' : b.slot = s => b = a
              /\ admitted' # None => admitted'.slot # s
              /\ active'[s] = None /\ claimed'[s]
          BY <1>1, <2>1, <3>2, <4>1, DispatcherAlone
        <4>4. Takers(s)' \subseteq {<<"flight", a>>}
          BY <2>4, <4>2, <4>3, TakerKindsNext
        <4>5. GenerationOK(s)'
          BY <1>1, <2>4, <2>5, <3>1, <3>2, <4>2 DEF GenerationOK
        <4> QED  BY <4>3, <4>4, <4>5 DEF SlotOK, OneTaker
      <3>4. CASE o.slot # s
        BY <1>1, <2>1, <2>2, <2>3, <2>5, <3>1, <3>4, DispatcherLeaves
      <3> QED  BY <3>3, <3>4
    <2> QED  BY <2>4, <2>6
  <1> QED  BY <1>2, <1>3

-----------------------------------------------------------------------------
(* The steps of the socket task and of the others                          *)

socketRest == <<dispatcher, alive, control_attached, detaches>>

\* Steps that touch no slot.
LEMMA QuietInv ==
  ASSUME SlotTypes, \A s \in Slots : SlotOK(s),
         UNCHANGED <<slotVars, dispatcher, flight, admitted>>
  PROVE  \A s \in Slots : SlotOK(s)'
  <1> TAKE s \in Slots
  <1>1. Takers(s)' = Takers(s) /\ claimed' = claimed
    BY DEF Takers, Holders, Swapped, ActiveSlots, slotVars
  <1>2. OneTaker(s)'
    BY <1>1 DEF SlotOK, OneTaker
  <1>3. GenerationOK(s)'
    BY DEF SlotOK, GenerationOK, Owns, slotVars
  <1> QED  BY <1>2, <1>3 DEF SlotOK

\* A slot that is taken back has no taker left, nor a claim under way that can succeed.
LEMMA ResetInv ==
  ASSUME SlotTypes, \A s \in Slots : SlotOK(s), NEW t, Reset(t), UNCHANGED socketRest,
         flight' \subseteq flight, admitted' \in {admitted, None},
         t \in Slots => /\ \A q \in Pools : ~ Owns(t, q) /\ ~ Swapped(t, q)
                        /\ \A a \in flight' : a.slot # t
                        /\ admitted' # None => admitted'.slot # t
  PROVE  SlotTypes' /\ \A s \in Slots : SlotOK(s)'
  <1>1. SlotTypes'
    <2>1. /\ active' = [s \in Slots |-> active'[s]]
          /\ generation' \in [Slots -> Nat]
          /\ claimed' \in [Slots -> BOOLEAN]
      <3>1. active' = [s \in Slots |-> active'[s]]
        BY DEF Reset, SlotTypes
      <3>2. generation' \in [Slots -> Nat]
        <4>1. generation \in [Slots -> Nat] /\ generation' = [generation EXCEPT ![t] = @ + 1]
          BY DEF Reset, SlotTypes
        <4>2. CASE t \in Slots
          <5>1. generation[t] + 1 \in Nat
            BY <4>1, <4>2
          <5> QED  BY <4>1, <5>1
        <4>3. CASE t \notin Slots
          <5>1. generation' = generation
            BY <4>1, <4>3
          <5> QED  BY <4>1, <5>1
        <4> QED  BY <4>2, <4>3
      <3>3. claimed' \in [Slots -> BOOLEAN]
        BY DEF Reset, SlotTypes
      <3> QED  BY <3>1, <3>2, <3>3
    <2>2. \A q \in Pools : DispatcherOK(q)' <=> DispatcherOK(q)
      BY DEF socketRest, DispatcherOK
    <2> QED  BY <2>1, <2>2 DEF SlotTypes, socketRest
  <1>2. ASSUME NEW s \in Slots PROVE SlotOK(s)'
    <2>1. GenerationOK(s) /\ OneTaker(s) /\ dispatcher' = dispatcher
      BY DEF SlotOK, socketRest
    <2>2. CASE s = t
      <3>1. /\ active'[s] = None /\ claimed'[s] = FALSE
            /\ generation'[s] = generation[s] + 1 /\ generation[s] \in Nat
        BY <2>2 DEF Reset, SlotTypes
      <3>2. \A q \in Pools : ~ Owns(s, q)' /\ ~ Swapped(s, q)'
        <4> TAKE q \in Pools
        <4>1. ~ Owns(s, q)'
          BY <2>1, <2>2 DEF Owns
        <4>2. dispatcher[q].pc = "swapped" /\ dispatcher[q].offer.slot = s
                => dispatcher[q].offer.gen \in Nat /\ dispatcher[q].offer.gen <= generation[s]
          BY <2>1 DEF GenerationOK
        <4>3. ~ Swapped(s, q)'
          BY <2>1, <3>1, <4>2 DEF Swapped
        <4> QED  BY <4>1, <4>3
      <3>3. Takers(s)' = {}
        BY <1>1, <2>2, <3>1, <3>2, TakerKindsNext
      <3>4. GenerationOK(s)'
        BY <2>1, <3>1, <3>2 DEF GenerationOK
      <3> QED  BY <3>3, <3>4 DEF SlotOK, OneTaker
    <2>3. CASE s # t
      <3>1. active'[s] = active[s] /\ claimed'[s] = claimed[s] /\ generation'[s] = generation[s]
        BY <2>3 DEF Reset, SlotTypes
      <3>2. \A q \in Pools : (Owns(s, q)' <=> Owns(s, q)) /\ (Swapped(s, q)' <=> Swapped(s, q))
        BY <2>1, <3>1 DEF Owns, Swapped
      <3>3. Takers(s)' \subseteq Takers(s)
        <4>1. ASSUME NEW x \in Takers(s)' PROVE x \in Takers(s)
          BY <1>1, <3>1, <3>2, TakerKinds, TakerKindsNext
        <4> QED  BY <4>1
      <3>4. GenerationOK(s)'
        BY <2>1, <3>1, <3>2 DEF GenerationOK
      <3> QED  BY <2>1, <3>1, <3>3, <3>4, FewerTakers DEF SlotOK
    <2> QED  BY <2>2, <2>3
  <1> QED  BY <1>1, <1>2

\* A step that hands a slot from one place to another without touching its flag.
LEMMA HandInv ==
  ASSUME SlotTypes, \A s \in Slots : SlotOK(s), UNCHANGED <<generation, claimed, socketRest>>,
         active' = [s \in Slots |-> active'[s]],
         \A s \in Slots : \/ Takers(s)' \subseteq Takers(s)
                          \/ Takers(s) # {} /\ \E y : Takers(s)' \subseteq {y}
  PROVE  SlotTypes' /\ \A s \in Slots : SlotOK(s)'
  <1>1. SlotTypes'
    <2>1. \A q \in Pools : DispatcherOK(q)' <=> DispatcherOK(q)
      BY DEF socketRest, DispatcherOK
    <2> QED  BY <2>1 DEF SlotTypes, socketRest
  <1>2. ASSUME NEW s \in Slots PROVE SlotOK(s)'
    <2>1. OneTaker(s) /\ GenerationOK(s)
      BY DEF SlotOK
    <2>2. OneTaker(s)'
      BY <2>1, FewerTakers, HandedOn
    <2>3. GenerationOK(s)'
      BY <2>1 DEF GenerationOK, Owns, socketRest
    <2> QED  BY <2>2, <2>3 DEF SlotOK
  <1> QED  BY <1>1, <1>2

\* An assignment that is rejected.
LEMMA RejectInv ==
  ASSUME SlotTypes, \A s \in Slots : SlotOK(s), NEW a, Reject(a), UNCHANGED socketRest,
         \/ a \in flight /\ flight' = flight \ {a} /\ UNCHANGED admitted
         \/ a = admitted /\ admitted # None /\ admitted' = None /\ UNCHANGED flight
  PROVE  SlotTypes' /\ \A s \in Slots : SlotOK(s)'
  <1>1. flight' \subseteq flight /\ admitted' \in {admitted, None}
    OBVIOUS
  <1>2. CASE active[a.slot] = None
    <2>1. Reset(a.slot)
      BY <1>2 DEF Reject
    <2>2. a.slot \in Slots => /\ \A q \in Pools : ~ Owns(a.slot, q) /\ ~ Swapped(a.slot, q)
                              /\ \A b \in flight' : b.slot # a.slot
                              /\ admitted' # None => admitted'.slot # a.slot
      <3> SUFFICES ASSUME a.slot \in Slots
                   PROVE  /\ \A q \in Pools : ~ Owns(a.slot, q) /\ ~ Swapped(a.slot, q)
                          /\ \A b \in flight' : b.slot # a.slot
                          /\ admitted' # None => admitted'.slot # a.slot
        OBVIOUS
      <3>1. OneTaker(a.slot)
        BY DEF SlotOK
      <3>2. CASE a \in flight /\ flight' = flight \ {a} /\ UNCHANGED admitted
        BY <3>1, <3>2, FlightAlone
      <3>3. CASE a = admitted /\ admitted # None /\ admitted' = None /\ UNCHANGED flight
        BY <3>1, <3>3, SocketAlone
      <3> QED  BY <3>2, <3>3
    <2> QED  BY <1>1, <2>1, <2>2, ResetInv
  <1>3. CASE active[a.slot] # None
    <2>1. UNCHANGED slotVars
      BY <1>3 DEF Reject
    <2>2. ASSUME NEW s \in Slots PROVE Takers(s)' \subseteq Takers(s)
      BY <1>1, <2>1 DEF Takers, Holders, Swapped, ActiveSlots, slotVars, socketRest
    <2> QED  BY <2>1, <2>2, HandInv DEF slotVars, SlotTypes
  <1> QED  BY <1>2, <1>3

LEMMA ReceiveInv ==
  ASSUME SlotTypes, \A s \in Slots : SlotOK(s), NEW a \in flight, Receive(a)
  PROVE  SlotTypes' /\ \A s \in Slots : SlotOK(s)'
  <1>1. flight' = flight \ {a} /\ UNCHANGED socketRest /\ admitted = None
    BY DEF Receive, Selecting, socketFrame, socketRest
  <1>2. CASE ~ (active[a.slot] = None /\ control_attached)
    BY <1>1, <1>2, RejectInv DEF Receive
  <1>3. CASE active[a.slot] = None /\ control_attached
    <2>1. admitted' = a /\ UNCHANGED slotVars
      BY <1>3 DEF Receive
    <2>2. SlotTypes'
      <3>1. \A q \in Pools : DispatcherOK(q)' <=> DispatcherOK(q)
        BY <1>1 DEF socketRest, DispatcherOK
      <3> QED  BY <1>1, <2>1, <3>1 DEF SlotTypes, socketRest, slotVars
    <2>3. \A s \in Slots, q \in Pools : (Owns(s, q)' <=> Owns(s, q)) /\ (Swapped(s, q)' <=> Swapped(s, q))
      BY <1>1, <2>1 DEF Owns, Swapped, socketRest, slotVars
    <2>4. ASSUME NEW s \in Slots
          PROVE  \/ Takers(s)' \subseteq Takers(s)
                 \/ Takers(s) # {} /\ \E y : Takers(s)' \subseteq {y}
      <3>1. CASE a.slot = s
        <4>1. <<"flight", a>> \in Takers(s)
          BY <3>1, TakersAre
        <4>2. OneTaker(s)
          BY DEF SlotOK
        <4>3. /\ \A q \in Pools : ~ Owns(s, q)' /\ ~ Swapped(s, q)'
              /\ \A b \in flight' : b.slot # s
              /\ active'[s] = None
          BY <1>1, <2>1, <2>3, <3>1, <4>2, FlightAlone DEF slotVars
        <4>4. Takers(s)' \subseteq {<<"admitted", s>>}
          BY <2>2, <4>3, TakerKindsNext
        <4> QED  BY <4>1, <4>4
      <3>2. CASE a.slot # s
        <4>1. ASSUME NEW x \in Takers(s)' PROVE x \in Takers(s)
          BY <1>1, <2>1, <2>2, <2>3, <3>2, TakerKinds, TakerKindsNext DEF slotVars
        <4> QED  BY <4>1
      <3> QED  BY <3>1, <3>2
    <2> QED  BY <1>1, <2>1, <2>4, HandInv DEF slotVars, SlotTypes
  <1> QED  BY <1>2, <1>3

LEMMA StartInv ==
  ASSUME SlotTypes, \A s \in Slots : SlotOK(s), StartStream
  PROVE  SlotTypes' /\ \A s \in Slots : SlotOK(s)'
  <1>1. /\ admitted # None /\ admitted' = None
        /\ active' = [active EXCEPT ![admitted.slot] = admitted.job]
        /\ UNCHANGED <<generation, claimed, flight, socketRest>>
    BY DEF StartStream, socketFrame, socketRest
  <1>2. active' = [s \in Slots |-> active'[s]]
    BY <1>1 DEF SlotTypes
  <1>3. SlotTypes'
    <2>1. \A q \in Pools : DispatcherOK(q)' <=> DispatcherOK(q)
      BY <1>1 DEF socketRest, DispatcherOK
    <2> QED  BY <1>1, <1>2, <2>1 DEF SlotTypes, socketRest
  <1>4. \A s \in Slots, q \in Pools : (Owns(s, q)' <=> Owns(s, q)) /\ (Swapped(s, q)' <=> Swapped(s, q))
    BY <1>1 DEF Owns, Swapped, socketRest
  <1>5. ASSUME NEW s \in Slots
        PROVE  \/ Takers(s)' \subseteq Takers(s)
               \/ Takers(s) # {} /\ \E y : Takers(s)' \subseteq {y}
    <2>1. CASE admitted.slot = s
      <3>1. <<"admitted", s>> \in Takers(s)
        BY <1>1, <2>1, TakersAre
      <3>2. OneTaker(s)
        BY DEF SlotOK
      <3>3. /\ \A q \in Pools : ~ Owns(s, q)' /\ ~ Swapped(s, q)'
            /\ \A b \in flight' : b.slot # s
        BY <1>1, <1>4, <2>1, <3>2, SocketAlone
      <3>4. Takers(s)' \subseteq {<<"active", s>>}
        BY <1>1, <1>3, <3>3, TakerKindsNext
      <3> QED  BY <3>1, <3>4
    <2>2. CASE admitted.slot # s
      <3>1. active'[s] = active[s]
        BY <1>1, <2>2 DEF SlotTypes
      <3>2. ASSUME NEW x \in Takers(s)' PROVE x \in Takers(s)
        BY <1>1, <1>3, <1>4, <3>1, TakerKinds, TakerKindsNext
      <3> QED  BY <3>2
    <2> QED  BY <2>1, <2>2
  <1> QED  BY <1>1, <1>2, <1>5, HandInv

LEMMA EndInv ==
  ASSUME SlotTypes, \A s \in Slots : SlotOK(s), NEW t \in Slots, EndStream(t)
  PROVE  SlotTypes' /\ \A s \in Slots : SlotOK(s)'
  <1>1. /\ active[t] # None /\ admitted = None /\ Reset(t)
        /\ UNCHANGED <<flight, admitted, socketRest>>
    BY DEF EndStream, Selecting, socketFrame, socketRest
  <1>2. OneTaker(t)
    BY DEF SlotOK
  <1>3. /\ \A q \in Pools : ~ Owns(t, q) /\ ~ Swapped(t, q)
        /\ \A a \in flight' : a.slot # t
    BY <1>1, <1>2, SocketAlone
  <1> QED  BY <1>1, <1>3, ResetInv

-----------------------------------------------------------------------------
(* The theorem                                                             *)

\* A step that leaves the slots alone keeps their types too.
LEMMA QuietTypes ==
  ASSUME SlotTypes, UNCHANGED <<slotVars, dispatcher>>,
         alive' \in BOOLEAN, control_attached' \in BOOLEAN, detaches' \in Nat,
         detaches' = 0 => control_attached'
  PROVE  SlotTypes'
  <1>1. \A q \in Pools : DispatcherOK(q)' <=> DispatcherOK(q)
    BY DEF DispatcherOK
  <1> QED  BY <1>1 DEF SlotTypes, slotVars

\* The invariant for a step that keeps the socket alive and control attached.
LEMMA StepOK ==
  ASSUME SlotTypes, \A s \in Slots : SlotOK(s), [Next]_vars, alive', detaches = 0, detaches' = 0
  PROVE  SlotTypes' /\ \A s \in Slots : SlotOK(s)'
  <1>1. CASE /\ UNCHANGED <<slotVars, dispatcher, flight, admitted, alive, detaches>>
             /\ control_attached' \in {TRUE, control_attached}
    <2>1. SlotTypes'
      BY <1>1, QuietTypes DEF SlotTypes
    <2> QED  BY <1>1, <2>1, QuietInv
  <1>2. ASSUME NEW j \in Jobs, Enqueue(j) \/ GiveUp(j)
        PROVE  SlotTypes' /\ \A s \in Slots : SlotOK(s)'
    BY <1>1, <1>2 DEF Enqueue, GiveUp, jobFrame, socketVars, controlVars
  <1>3. ASSUME NEW p \in Pools, DispatcherStep(p)
        PROVE  SlotTypes' /\ \A s \in Slots : SlotOK(s)'
    <2>1. CASE Sweep(p)
      BY <1>1, <2>1 DEF Sweep, dispatchFrame, socketVars, controlVars
    <2> QED
      BY <1>3, <2>1, PickInv, ClaimInv, RecheckInv, AbandonInv, ReleaseInv, AssignInv DEF DispatcherStep
  <1>4. CASE SocketStep
    <2>1. CASE PublishSlot \/ PublishOffer \/ RouteChanged
      BY <1>1, <2>1 DEF PublishSlot, PublishOffer, RouteChanged, socketFrame
    <2>2. CASE ControlChanged
      <3>1. control_attached
        BY DEF SlotTypes
      <3> QED  BY <1>1, <2>2, <3>1 DEF ControlChanged, socketFrame
    <2>3. CASE RejectRoute
      <3>1. /\ Reject(admitted) /\ admitted # None /\ admitted' = None
            /\ UNCHANGED <<flight, socketRest>>
        BY <2>3 DEF RejectRoute, socketFrame, socketRest
      <3> QED  BY <3>1, RejectInv
    <2> QED  BY <1>4, <2>1, <2>2, <2>3, ReceiveInv, StartInv DEF SocketStep
  <1>5. ASSUME NEW s \in Slots, EndStream(s)
        PROVE  SlotTypes' /\ \A t \in Slots : SlotOK(t)'
    BY <1>5, EndInv
  <1>6. CASE SocketLost \/ SendFailed
    BY <1>6 DEF SocketLost, SendFailed, Lose
  <1>7. CASE ControlStep
    <2>1. CASE DetachControl
      BY <2>1 DEF DetachControl
    <2>2. CASE AttachControl
      BY <1>1, <2>2 DEF AttachControl, controlFrame, socketVars
    <2>3. ASSUME NEW r \in RouteIds, RegisterRoute(r) \/ UnregisterRoute(r)
          PROVE  SlotTypes' /\ \A s \in Slots : SlotOK(s)'
      BY <1>1, <2>3 DEF RegisterRoute, UnregisterRoute, controlFrame, socketVars
    <2> QED  BY <1>7, <2>1, <2>2, <2>3 DEF ControlStep
  <1>8. CASE UNCHANGED vars
    BY <1>1, <1>8 DEF vars, socketVars, controlVars
  <1> QED
    BY <1>2, <1>3, <1>4, <1>5, <1>6, <1>7, <1>8 DEF Next

\* A socket that is lost stays lost, and detaches are counted.
LEMMA StepMonotone ==
  ASSUME detaches \in Nat, [Next]_vars
  PROVE  detaches' \in Nat /\ (detaches' = 0 => detaches = 0) /\ (alive' => alive)
  <1>1. CASE UNCHANGED <<alive, detaches>>
    BY <1>1
  <1>2. CASE \E j \in Jobs : Enqueue(j) \/ GiveUp(j)
    BY <1>1, <1>2 DEF Enqueue, GiveUp, jobFrame, socketVars, controlVars
  <1>3. CASE \E p \in Pools : DispatcherStep(p)
    BY <1>1, <1>3
    DEF DispatcherStep, Sweep, Pick, Claim, Recheck, Abandon, Release, Assign,
        dispatchFrame, socketVars, controlVars
  <1>4. CASE SocketStep \/ \E s \in Slots : EndStream(s)
    BY <1>1, <1>4
    DEF SocketStep, PublishSlot, PublishOffer, ControlChanged, RouteChanged, Receive,
        RejectRoute, StartStream, EndStream, socketFrame
  <1>5. CASE SocketLost \/ SendFailed
    BY <1>5 DEF SocketLost, SendFailed, Lose, socketFrame, Selecting
  <1>6. CASE ControlStep
    <2>1. CASE DetachControl
      BY <2>1 DEF DetachControl, controlFrame, socketVars
    <2>2. CASE AttachControl
      BY <1>1, <2>2 DEF AttachControl, controlFrame, socketVars
    <2>3. CASE \E r \in RouteIds : RegisterRoute(r) \/ UnregisterRoute(r)
      BY <1>1, <2>3 DEF RegisterRoute, UnregisterRoute, controlFrame, socketVars
    <2> QED  BY <1>6, <2>1, <2>2, <2>3 DEF ControlStep
  <1>7. CASE UNCHANGED vars
    BY <1>1, <1>7 DEF vars, socketVars, controlVars
  <1> QED
    BY <1>2, <1>3, <1>4, <1>5, <1>6, <1>7 DEF Next

LEMMA InvHolds == Spec => []Inv
  <1>1. Init => Inv
    <2> SUFFICES ASSUME Init PROVE Inv
      OBVIOUS
    <2>1. SlotTypes
      <3>1. /\ generation \in [Slots -> Nat] /\ claimed \in [Slots -> BOOLEAN]
            /\ active = [s \in Slots |-> active[s]]
        BY DEF Init
      <3>2. dispatcher = [p \in Pools |-> dispatcher[p]] /\ \A p \in Pools : DispatcherOK(p)
        BY DEF Init, Idle, DispatcherOK
      <3> QED  BY <3>1, <3>2 DEF Init, SlotTypes
    <2>2. ASSUME NEW s \in Slots PROVE SlotOK(s)
      <3>1. \A p \in Pools : dispatcher[p].pc = "idle"
        BY DEF Init, Idle
      <3>2. Takers(s) = {}
        BY <2>1, <2>2, <3>1, TakerKinds DEF Init, Owns, Swapped
      <3> QED  BY <3>1, <3>2 DEF SlotOK, OneTaker, GenerationOK, Owns
    <2> QED  BY <2>1, <2>2 DEF Inv, Init
  <1>2. Inv /\ [Next]_vars => Inv'
    BY StepOK, StepMonotone DEF Inv
  <1> QED  BY <1>1, <1>2, PTL DEF Spec

\* For any number of slots, pools, routes and jobs: while control has stayed attached, a
\* slot has one taker at a time, whose claim stays set (try_claim, release,
\* reset_multiplex_slot).
THEOREM OneTakerAtATime == Spec => []ExclusiveClaim
  <1>1. Inv => ExclusiveClaim
    <2> SUFFICES ASSUME Inv, NEW s \in Slots, alive, detaches = 0
                 PROVE  Cardinality(Holders(s)) <= 1 /\ (Holders(s) # {} => claimed[s])
      BY DEF ExclusiveClaim
    <2>1. OneTaker(s)
      BY DEF Inv, SlotOK
    <2>2. (\A x, y \in Holders(s) : x = y) /\ (Holders(s) # {} => claimed[s])
      BY <2>1 DEF OneTaker, Takers
    <2>3. CASE Holders(s) = {}
      BY <2>2, <2>3, FS_EmptySet
    <2>4. CASE Holders(s) # {}
      <3> PICK x \in Holders(s) : TRUE
        BY <2>4
      <3>1. Holders(s) = {x}
        BY <2>2
      <3>2. Cardinality({x}) = 1
        BY FS_Singleton
      <3> QED  BY <2>2, <3>1, <3>2
    <2> QED  BY <2>3, <2>4
  <1> QED  BY <1>1, InvHolds, PTL

-----------------------------------------------------------------------------
(* Types                                                                   *)

\* An assignment waits for a slot without a stream, and a live socket counts its streams.
Streams ==
  /\ IsFiniteSet(ActiveSlots)
  /\ admitted # None => active[admitted.slot] = None
  /\ IF alive THEN active_streams = Cardinality(ActiveSlots) ELSE ActiveSlots = {}

TypeInv == TypeOK /\ Streams

Points == {"checked", "swapped", "owned", "releasing"}

\* A dispatcher that is not idle holds an offer and a job.
LEMMA HeldByDispatcher ==
  ASSUME TypeOK, NEW p \in Pools, dispatcher[p].pc # "idle"
  PROVE  /\ dispatcher[p].pc \in Points
         /\ dispatcher[p].offer \in Offer /\ dispatcher[p].job \in Jobs
         /\ dispatcher[p].offer.slot \in Slots
         /\ \A v \in Points :
              [dispatcher[p] EXCEPT !.pc = v] =
                [pc |-> v, offer |-> dispatcher[p].offer, job |-> dispatcher[p].job]
<1>1. dispatcher[p] \in [pc : Points, offer : Offer, job : Jobs]
  BY DEF TypeOK, DispatcherState, Idle, Points
<1> QED  BY <1>1 DEF Offer

LEMMA DispatcherIdles ==
  ASSUME TypeOK, NEW p \in Pools
  PROVE  /\ [dispatcher EXCEPT ![p] = Idle] \in [Pools -> DispatcherState]
         /\ \A v \in Points, o \in Offer, j \in Jobs :
              [dispatcher EXCEPT ![p] = [pc |-> v, offer |-> o, job |-> j]]
                \in [Pools -> DispatcherState]
<1>1. /\ Idle \in DispatcherState
      /\ \A v \in Points, o \in Offer, j \in Jobs :
           [pc |-> v, offer |-> o, job |-> j] \in DispatcherState
  BY DEF DispatcherState, Points
<1> QED  BY <1>1 DEF TypeOK

LEMMA DispatcherMoves ==
  ASSUME TypeOK, NEW p \in Pools, dispatcher[p].pc # "idle", NEW v \in Points
  PROVE  [dispatcher EXCEPT ![p].pc = v] \in [Pools -> DispatcherState]
<1>1. [dispatcher[p] EXCEPT !.pc = v] =
        [pc |-> v, offer |-> dispatcher[p].offer, job |-> dispatcher[p].job]
  BY HeldByDispatcher
<1>2. dispatcher[p].offer \in Offer /\ dispatcher[p].job \in Jobs
  BY HeldByDispatcher
<1>3. [dispatcher EXCEPT ![p].pc = v] = [dispatcher EXCEPT ![p] = [dispatcher[p] EXCEPT !.pc = v]]
  BY DEF TypeOK
<1> QED  BY <1>1, <1>2, <1>3, DispatcherIdles

LEMMA Requeued ==
  ASSUME TypeOK, NEW p \in Pools, dispatcher[p].pc # "idle", Requeue(p)
  PROVE  dispatcher' \in [Pools -> DispatcherState] /\ queue' \in [Pools -> SUBSET Jobs]
<1>1. dispatcher' \in [Pools -> DispatcherState]
  BY DispatcherIdles DEF Requeue
<1>2. dispatcher[p].job \in Jobs
  BY HeldByDispatcher
<1>3. queue \in [Pools -> SUBSET Jobs] /\ queue' = [queue EXCEPT ![p] = @ \cup {dispatcher[p].job}]
  BY DEF TypeOK, Requeue
<1> QED  BY <1>1, <1>2, <1>3

\* What is left of a list of offers is a list of offers.
LEMMA RetainTypes ==
  ASSUME TypeOK, NEW p \in Pools, Retain(p)
  PROVE  offers' \in [Pools -> Seq(Offer)]
<1>1. PICK e \in InOrder(UsableAt(p)) :
        offers' = [offers EXCEPT ![p] = [i \in DOMAIN e |-> offers[p][e[i]]]]
  BY DEF Retain
<1> DEFINE K == UsableAt(p)
           n == Cardinality(K)
<1>2. offers[p] \in Seq(Offer) /\ K \subseteq 1 .. Len(offers[p])
  BY DEF TypeOK, UsableAt
<1>3. IsFiniteSet(K) /\ n \in Nat
  <2>1. IsFiniteSet(1 .. Len(offers[p]))
    BY <1>2, FS_Interval
  <2> QED  BY <1>2, <2>1, FS_Subset, FS_CardinalityType
<1>4. e \in [1 .. n -> K]
  BY DEF InOrder
<1>5. [i \in DOMAIN e |-> offers[p][e[i]]] \in [1 .. n -> Offer]
  BY <1>2, <1>4
<1>6. [i \in DOMAIN e |-> offers[p][e[i]]] \in Seq(Offer)
  BY <1>3, <1>5
<1> QED  BY <1>1, <1>6 DEF TypeOK

\* The offer that comes back is the first again.
LEMMA OfferedAgain ==
  ASSUME TypeOK, NEW p \in Pools, NEW o \in Offer
  PROVE  [offers EXCEPT ![p] = <<o>> \o @] \in [Pools -> Seq(Offer)]
<1>1. offers \in [Pools -> Seq(Offer)] /\ offers[p] \in Seq(Offer)
  BY DEF TypeOK
<1>2. <<o>> \in Seq(Offer)
  OBVIOUS
<1>3. <<o>> \o offers[p] \in Seq(Offer)
  BY <1>1, <1>2
<1> QED  BY <1>1, <1>3

\* A step that leaves the streams alone.
LEMMA StreamsKept ==
  ASSUME Streams, UNCHANGED <<active, alive, active_streams>>, admitted' \in {admitted, None}
  PROVE  Streams'
  BY DEF Streams, ActiveSlots

\* What a dispatcher's step may change.
LEMMA DispatcherFrame ==
  ASSUME TypeOK, UNCHANGED <<dispatchFrame, generation, active>>,
         claimed' \in [Slots -> BOOLEAN], offers' \in [Pools -> Seq(Offer)],
         queue' \in [Pools -> SUBSET Jobs], dispatcher' \in [Pools -> DispatcherState],
         flight' \subseteq Assignment, finished' \subseteq Jobs
  PROVE  TypeOK'
<1>1. UNCHANGED <<generation, active, alive, publishing, offering, admitted, control_attached,
                  control_changed, detaches, route, route_changed, active_streams, entered,
                  given_up>>
  BY DEF dispatchFrame, socketVars, controlVars
<1> QED  BY <1>1 DEF TypeOK

LEMMA DispatcherTypeInv ==
  ASSUME TypeInv, NEW p \in Pools, DispatcherStep(p)
  PROVE  TypeInv'
<1> USE DEF TypeInv
<1>1. /\ claimed \in [Slots -> BOOLEAN] /\ offers \in [Pools -> Seq(Offer)]
      /\ queue \in [Pools -> SUBSET Jobs] /\ dispatcher \in [Pools -> DispatcherState]
      /\ flight \subseteq Assignment /\ finished \subseteq Jobs
  BY DEF TypeOK
<1>2. UNCHANGED <<dispatchFrame, generation, active>>
  BY DEF DispatcherStep, Sweep, Pick, Claim, Recheck, Abandon, Release, Assign, slotVars
<1>3. Streams'
  BY <1>2, StreamsKept DEF dispatchFrame, socketVars
<1>4. CASE Sweep(p)
  <2>1. offers' \in [Pools -> Seq(Offer)]
    BY <1>4, RetainTypes DEF Sweep
  <2>2. queue' = [queue EXCEPT ![p] = @ \ given_up]
        /\ finished' = finished \cup (queue[p] \cap given_up)
    BY <1>4 DEF Sweep
  <2>3. queue' \in [Pools -> SUBSET Jobs] /\ finished' \subseteq Jobs
    BY <1>1, <2>2
  <2>4. UNCHANGED <<claimed, dispatcher, flight>>
    BY <1>4 DEF Sweep, slotVars
  <2> QED  BY <1>1, <1>2, <1>3, <2>1, <2>3, <2>4, DispatcherFrame
<1>5. ASSUME NEW j \in Jobs, Pick(p, j) PROVE TypeOK'
  <2>1. offers[p] \in Seq(Offer) /\ offers[p] # <<>>
    BY <1>1, <1>5 DEF Pick
  <2>2. Head(offers[p]) \in Offer /\ Tail(offers[p]) \in Seq(Offer)
    BY <2>1
  <2>3. offers' \in [Pools -> Seq(Offer)]
    BY <1>1, <1>5, <2>2 DEF Pick
  <2>4. dispatcher' \in {dispatcher,
          [dispatcher EXCEPT ![p] = [pc |-> "checked", offer |-> Head(offers[p]), job |-> j]]}
    BY <1>5 DEF Pick
  <2>5. dispatcher' \in [Pools -> DispatcherState]
    BY <1>1, <2>2, <2>4, DispatcherIdles DEF Points
  <2>6. queue' \in {queue, [queue EXCEPT ![p] = @ \ {j}]}
    BY <1>5 DEF Pick
  <2>7. queue' \in [Pools -> SUBSET Jobs]
    BY <1>1, <2>6
  <2>8. UNCHANGED <<claimed, flight, finished>>
    BY <1>5 DEF Pick, slotVars
  <2> QED  BY <1>1, <1>2, <2>3, <2>5, <2>7, <2>8, DispatcherFrame
<1>6. CASE Claim(p)
  <2>1. dispatcher[p].pc # "idle" /\ dispatcher[p].offer.slot \in Slots
    BY <1>6, HeldByDispatcher DEF Claim
  <2>2. UNCHANGED <<offers, flight, finished>>
    BY <1>6 DEF Claim
  <2>3. CASE claimed[dispatcher[p].offer.slot]
    <3>1. Requeue(p) /\ UNCHANGED claimed
      BY <1>6, <2>3 DEF Claim
    <3> QED  BY <1>1, <1>2, <2>1, <2>2, <3>1, Requeued, DispatcherFrame, <1>3
  <2>4. CASE ~ claimed[dispatcher[p].offer.slot]
    <3>1. /\ claimed' = [claimed EXCEPT ![dispatcher[p].offer.slot] = TRUE]
          /\ dispatcher' = [dispatcher EXCEPT ![p].pc = "swapped"]
          /\ UNCHANGED queue
      BY <1>6, <2>4 DEF Claim
    <3>2. claimed' \in [Slots -> BOOLEAN]
      BY <1>1, <3>1
    <3>3. dispatcher' \in [Pools -> DispatcherState]
      BY <2>1, <3>1, DispatcherMoves DEF Points
    <3> QED  BY <1>1, <1>2, <1>3, <2>2, <3>1, <3>2, <3>3, DispatcherFrame
  <2> QED  BY <2>3, <2>4
<1>7. CASE Recheck(p)
  <2>1. dispatcher[p].pc # "idle"
    BY <1>7 DEF Recheck
  <2>2. UNCHANGED <<claimed, offers, flight, finished>>
    BY <1>7 DEF Recheck, slotVars
  <2>3. \/ Requeue(p)
        \/ dispatcher' = [dispatcher EXCEPT ![p].pc = "owned"] /\ UNCHANGED queue
    BY <1>7 DEF Recheck
  <2>4. dispatcher' \in [Pools -> DispatcherState] /\ queue' \in [Pools -> SUBSET Jobs]
    BY <1>1, <2>1, <2>3, Requeued, DispatcherMoves DEF Points
  <2> QED  BY <1>1, <1>2, <1>3, <2>2, <2>4, DispatcherFrame
<1>8. CASE Abandon(p) \/ Release(p)
  <2>1. dispatcher[p].pc # "idle"
    BY <1>8 DEF Abandon, Release
  <2>2. /\ dispatcher[p].offer \in Offer /\ dispatcher[p].job \in Jobs
        /\ dispatcher[p].offer.slot \in Slots
    BY <2>1, HeldByDispatcher
  <2>3. /\ claimed' \in {claimed, [claimed EXCEPT ![dispatcher[p].offer.slot] = FALSE]}
        /\ offers' \in {offers, [offers EXCEPT ![p] = <<dispatcher[p].offer>> \o @]}
        /\ dispatcher' \in {[dispatcher EXCEPT ![p] = Idle], [dispatcher EXCEPT ![p].pc = "releasing"]}
        /\ finished' \in {finished, finished \cup {dispatcher[p].job}}
        /\ UNCHANGED <<queue, flight>>
    BY <1>8 DEF Abandon, Release, slotVars
  <2>4. claimed' \in [Slots -> BOOLEAN]
    BY <1>1, <2>3
  <2>5. offers' \in [Pools -> Seq(Offer)]
    <3>1. [offers EXCEPT ![p] = <<dispatcher[p].offer>> \o @] \in [Pools -> Seq(Offer)]
      BY <2>2, OfferedAgain
    <3> QED  BY <1>1, <2>3, <3>1
  <2>6. dispatcher' \in [Pools -> DispatcherState]
    <3>1. /\ [dispatcher EXCEPT ![p] = Idle] \in [Pools -> DispatcherState]
          /\ [dispatcher EXCEPT ![p].pc = "releasing"] \in [Pools -> DispatcherState]
      BY <2>1, DispatcherIdles, DispatcherMoves DEF Points
    <3> QED  BY <2>3, <3>1
  <2>7. finished' \subseteq Jobs
    BY <1>1, <2>2, <2>3
  <2> QED  BY <1>1, <1>2, <1>3, <2>3, <2>4, <2>5, <2>6, <2>7, DispatcherFrame
<1>9. CASE Assign(p)
  <2>1. dispatcher[p].pc # "idle"
    BY <1>9 DEF Assign
  <2>2. dispatcher[p].offer \in Offer /\ dispatcher[p].job \in Jobs
    BY <2>1, HeldByDispatcher
  <2>3. /\ \/ flight' = flight \cup {[slot |-> dispatcher[p].offer.slot,
                                      route |-> dispatcher[p].offer.route,
                                      gen |-> dispatcher[p].offer.gen, job |-> dispatcher[p].job]}
           \/ flight' = flight
        /\ \/ Requeue(p)
           \/ dispatcher' = [dispatcher EXCEPT ![p] = Idle] /\ UNCHANGED queue
        /\ UNCHANGED <<claimed, offers, finished>>
    BY <1>9 DEF Assign, slotVars
  <2>4. flight' \subseteq Assignment
    BY <1>1, <2>2, <2>3 DEF Offer, Assignment
  <2>5. dispatcher' \in [Pools -> DispatcherState] /\ queue' \in [Pools -> SUBSET Jobs]
    BY <1>1, <2>1, <2>3, Requeued, DispatcherIdles
  <2> QED  BY <1>1, <1>2, <1>3, <2>3, <2>4, <2>5, DispatcherFrame
<1> QED  BY <1>3, <1>4, <1>5, <1>6, <1>7, <1>8, <1>9 DEF DispatcherStep

\* A step of the socket task, the control socket or a request, which leaves the
\* dispatchers alone.
LEMMA SocketFrame ==
  ASSUME TypeOK, UNCHANGED <<queue, dispatcher>>,
         generation' \in [Slots -> Nat], claimed' \in [Slots -> BOOLEAN],
         active' \in [Slots -> Jobs \cup {None}], offers' \in [Pools -> Seq(Offer)],
         flight' \subseteq Assignment, alive' \in BOOLEAN, publishing' \subseteq Slots,
         offering' \in {NotOffering} \cup [slot : Slots, routes : SUBSET RouteIds],
         admitted' \in Assignment \cup {None}, control_changed' \in BOOLEAN,
         route_changed' \in BOOLEAN, active_streams' \in Nat, finished' \subseteq Jobs,
         UNCHANGED <<control_attached, detaches, route, entered, given_up>>
  PROVE  TypeOK'
BY DEF TypeOK

LEMMA ResetTypes ==
  ASSUME TypeOK, NEW s \in Slots, Reset(s)
  PROVE  /\ generation' \in [Slots -> Nat] /\ claimed' \in [Slots -> BOOLEAN]
         /\ active' \in [Slots -> Jobs \cup {None}]
         /\ active[s] = None => active' = active
<1>1. /\ generation \in [Slots -> Nat] /\ claimed \in [Slots -> BOOLEAN]
      /\ active \in [Slots -> Jobs \cup {None}]
  BY DEF TypeOK
<1> QED  BY <1>1 DEF Reset

\* A rejected assignment changes the streams of nobody.
LEMMA RejectTypes ==
  ASSUME TypeOK, NEW a \in Assignment, Reject(a)
  PROVE  /\ generation' \in [Slots -> Nat] /\ claimed' \in [Slots -> BOOLEAN]
         /\ active' = active /\ finished' \subseteq Jobs
<1>1. a.slot \in Slots /\ a.job \in Jobs
  BY DEF Assignment
<1>2. finished' \subseteq Jobs
  BY <1>1 DEF Reject, TypeOK
<1>3. \/ active[a.slot] = None /\ Reset(a.slot)
      \/ UNCHANGED slotVars
  BY DEF Reject
<1>4. CASE UNCHANGED slotVars
  BY <1>2, <1>4 DEF slotVars, TypeOK
<1> QED  BY <1>1, <1>2, <1>3, <1>4, ResetTypes

LEMMA JobTypeInv ==
  ASSUME SlotsAssumption, TypeInv, NEW j \in Jobs, Enqueue(j) \/ GiveUp(j)
  PROVE  TypeInv'
<1> USE DEF TypeInv
<1>1. UNCHANGED jobFrame
  BY DEF Enqueue, GiveUp
<1>2. Streams'
  BY <1>1, StreamsKept DEF jobFrame, slotVars, socketVars
<1>3. queue' \in [Pools -> SUBSET Jobs] /\ entered' \subseteq Jobs /\ given_up' \subseteq Jobs
      /\ UNCHANGED finished
  <2>1. queue \in [Pools -> SUBSET Jobs] /\ entered \subseteq Jobs /\ given_up \subseteq Jobs
    BY DEF TypeOK
  <2>2. JobPool[j] \in Pools
    BY DEF SlotsAssumption
  <2> QED  BY <2>1, <2>2 DEF Enqueue, GiveUp
<1>4. TypeOK'
  BY <1>1, <1>3 DEF TypeOK, jobFrame, slotVars, socketVars, controlVars
<1> QED  BY <1>2, <1>4

LEMMA ControlTypeInv ==
  ASSUME TypeInv, ControlStep
  PROVE  TypeInv'
<1> USE DEF TypeInv
<1>1. UNCHANGED controlFrame
  BY DEF ControlStep, DetachControl, AttachControl, RegisterRoute, UnregisterRoute
<1>2. Streams'
  BY <1>1, StreamsKept DEF controlFrame, slotVars, socketVars
<1>3. /\ control_attached' \in BOOLEAN /\ control_changed' \in BOOLEAN /\ detaches' \in Nat
      /\ route' \in [RouteIds -> {"new", "live", "gone"}] /\ route_changed' \in BOOLEAN
  <2>1. /\ control_attached \in BOOLEAN /\ control_changed \in BOOLEAN /\ detaches \in Nat
        /\ route \in [RouteIds -> {"new", "live", "gone"}] /\ route_changed \in BOOLEAN
    BY DEF TypeOK
  <2>2. CASE DetachControl \/ AttachControl
    <3>1. /\ control_attached' \in {TRUE, FALSE} /\ control_changed' = TRUE
          /\ detaches' \in {detaches, detaches + 1} /\ UNCHANGED <<route, route_changed>>
      BY <2>2 DEF DetachControl, AttachControl
    <3>2. detaches' \in Nat
      BY <2>1, <3>1
    <3> QED  BY <2>1, <3>1, <3>2
  <2>3. CASE \E r \in RouteIds : RegisterRoute(r) \/ UnregisterRoute(r)
    BY <2>1, <2>3 DEF RegisterRoute, UnregisterRoute
  <2> QED  BY <2>2, <2>3 DEF ControlStep
<1>4. TypeOK'
  BY <1>1, <1>3 DEF TypeOK, controlFrame, slotVars, socketVars, jobVars
<1> QED  BY <1>2, <1>4

LEMMA PublishTypeInv ==
  ASSUME TypeInv, PublishSlot \/ PublishOffer \/ ControlChanged \/ RouteChanged
  PROVE  TypeInv'
<1> USE DEF TypeInv
<1>1. UNCHANGED <<socketFrame, active, flight, alive, admitted, active_streams, finished>>
  BY DEF PublishSlot, PublishOffer, ControlChanged, RouteChanged, slotVars
<1>2. Streams'
  BY <1>1, StreamsKept
<1>3. /\ generation \in [Slots -> Nat] /\ claimed \in [Slots -> BOOLEAN]
      /\ offers \in [Pools -> Seq(Offer)] /\ publishing \subseteq Slots
      /\ offering \in {NotOffering} \cup [slot : Slots, routes : SUBSET RouteIds]
      /\ control_changed \in BOOLEAN /\ route_changed \in BOOLEAN
  BY DEF TypeOK
<1>4. CASE PublishSlot \/ RouteChanged
  <2>1. UNCHANGED <<generation, claimed, offers, control_changed>>
    BY <1>4 DEF PublishSlot, RouteChanged, slotVars
  <2>2. publishing' \subseteq Slots /\ route_changed' \in BOOLEAN
    BY <1>3, <1>4 DEF PublishSlot, RouteChanged
  <2>3. offering' \in {NotOffering} \cup [slot : Slots, routes : SUBSET RouteIds]
    BY <1>3, <1>4 DEF PublishSlot, RouteChanged, Live
  <2> QED  BY <1>1, <1>2, <1>3, <2>1, <2>2, <2>3, SocketFrame DEF TypeOK, socketFrame
<1>5. CASE PublishOffer
  <2>1. UNCHANGED <<generation, claimed, publishing, control_changed, route_changed>>
    BY <1>5 DEF PublishOffer, slotVars
  <2>2. PICK r \in offering.routes :
          /\ offers' \in {offers, [offers EXCEPT ![RoutePool[r]] =
               Append(@, [slot |-> offering.slot, route |-> r, gen |-> generation[offering.slot]])]}
          /\ offering' \in {NotOffering, [offering EXCEPT !.routes = @ \ {r}]}
    BY <1>5 DEF PublishOffer
  <2>3. offering \in [slot : Slots, routes : SUBSET RouteIds]
    BY <1>3, <1>5 DEF PublishOffer
  <2>4. offering' \in {NotOffering} \cup [slot : Slots, routes : SUBSET RouteIds]
    BY <2>2, <2>3
  <2>5. [slot |-> offering.slot, route |-> r, gen |-> generation[offering.slot]] \in Offer
    BY <1>3, <2>2, <2>3 DEF Offer
  <2>6. offers' \in [Pools -> Seq(Offer)]
    <3>1. CASE RoutePool[r] \in Pools
      <4>1. offers[RoutePool[r]] \in Seq(Offer)
        BY <1>3, <3>1
      <4>2. Append(offers[RoutePool[r]], [slot |-> offering.slot, route |-> r,
                     gen |-> generation[offering.slot]]) \in Seq(Offer)
        BY <2>5, <4>1
      <4> QED  BY <1>3, <2>2, <4>2
    <3>2. CASE RoutePool[r] \notin Pools
      BY <1>3, <2>2, <3>2
    <3> QED  BY <3>1, <3>2
  <2> QED  BY <1>1, <1>2, <1>3, <2>1, <2>4, <2>6, SocketFrame DEF TypeOK, socketFrame
<1>6. CASE ControlChanged
  <2>1. UNCHANGED <<offers, offering, route_changed>> /\ control_changed' = FALSE
    BY <1>6 DEF ControlChanged
  <2>2. \/ publishing' = Slots /\ UNCHANGED slotVars
        \/ /\ generation' = [s \in Slots |-> IF active[s] = None THEN generation[s] + 1
                                                                  ELSE generation[s]]
           /\ claimed' = [s \in Slots |-> active[s] # None /\ claimed[s]]
           /\ UNCHANGED publishing
    BY <1>6 DEF ControlChanged
  <2>3. /\ generation' \in [Slots -> Nat] /\ claimed' \in [Slots -> BOOLEAN]
        /\ publishing' \subseteq Slots
    <3>1. ASSUME NEW s \in Slots PROVE generation[s] + 1 \in Nat /\ claimed[s] \in BOOLEAN
      BY <1>3
    <3> QED  BY <1>3, <2>2, <3>1 DEF slotVars
  <2> QED  BY <1>1, <1>2, <1>3, <2>1, <2>3, SocketFrame DEF TypeOK, socketFrame
<1> QED  BY <1>4, <1>5, <1>6

LEMMA AssignedTypeInv ==
  ASSUME SlotsAssumption, TypeInv, (\E a \in flight : Receive(a)) \/ RejectRoute
  PROVE  TypeInv'
<1> USE DEF TypeInv
<1>1. /\ UNCHANGED <<socketFrame, offers, alive, publishing, offering, control_changed,
                     route_changed, active_streams>>
      /\ flight' \subseteq flight
  BY DEF Receive, RejectRoute
<1>2. flight \subseteq Assignment /\ admitted \in Assignment \cup {None} /\ None \notin Assignment
  BY DEF TypeOK, SlotsAssumption
<1>3. /\ generation' \in [Slots -> Nat] /\ claimed' \in [Slots -> BOOLEAN]
      /\ active' = active /\ finished' \subseteq Jobs
      /\ \/ admitted' \in {admitted, None}
         \/ admitted' \in Assignment /\ active[admitted'.slot] = None
  <2>1. CASE RejectRoute
    <3>1. admitted \in Assignment /\ Reject(admitted) /\ admitted' = None
      BY <1>2, <2>1 DEF RejectRoute
    <3> QED  BY <3>1, RejectTypes
  <2>2. CASE \E a \in flight : Receive(a)
    <3>1. PICK a \in flight : Receive(a)
      BY <2>2
    <3>2. a \in Assignment
      BY <1>2
    <3>3. CASE active[a.slot] = None /\ control_attached
      BY <3>1, <3>2, <3>3 DEF Receive, slotVars, TypeOK
    <3>4. CASE ~ (active[a.slot] = None /\ control_attached)
      BY <3>1, <3>2, <3>4, RejectTypes DEF Receive
    <3> QED  BY <3>3, <3>4
  <2> QED  BY <2>1, <2>2
<1>4. Streams'
  BY <1>1, <1>3 DEF Streams, ActiveSlots
<1>5. TypeOK'
  <2>1. /\ admitted' \in Assignment \cup {None} /\ flight' \subseteq Assignment
        /\ active' \in [Slots -> Jobs \cup {None}]
    BY <1>1, <1>2, <1>3 DEF TypeOK
  <2> QED  BY <1>1, <1>3, <2>1, SocketFrame DEF TypeOK, socketFrame
<1> QED  BY <1>4, <1>5

LEMMA StartTypeInv ==
  ASSUME SlotsAssumption, TypeInv, StartStream
  PROVE  TypeInv'
<1> USE DEF TypeInv
<1>1. /\ UNCHANGED <<socketFrame, generation, claimed, offers, flight, alive, publishing,
                     offering, control_changed, route_changed, finished>>
      /\ alive /\ admitted # None /\ admitted' = None
      /\ active' = [active EXCEPT ![admitted.slot] = admitted.job]
      /\ active_streams' = active_streams + 1
  BY DEF StartStream
<1>2. admitted.slot \in Slots /\ admitted.job \in Jobs
  BY <1>1 DEF TypeOK, Assignment
<1>3. active \in [Slots -> Jobs \cup {None}] /\ None \notin Jobs
  BY DEF TypeOK, SlotsAssumption
<1>4. /\ IsFiniteSet(ActiveSlots) /\ active_streams = Cardinality(ActiveSlots)
      /\ admitted.slot \notin ActiveSlots
  BY <1>1 DEF Streams, ActiveSlots
<1>5. ActiveSlots' = ActiveSlots \cup {admitted.slot}
  BY <1>1, <1>2, <1>3 DEF ActiveSlots
<1>6. /\ IsFiniteSet(ActiveSlots \cup {admitted.slot})
      /\ Cardinality(ActiveSlots \cup {admitted.slot}) = Cardinality(ActiveSlots) + 1
  BY <1>4, FS_AddElement
<1>7. Streams'
  BY <1>1, <1>4, <1>5, <1>6 DEF Streams
<1>8. active' \in [Slots -> Jobs \cup {None}] /\ active_streams' \in Nat
  BY <1>1, <1>2, <1>3 DEF TypeOK
<1> QED  BY <1>1, <1>7, <1>8, SocketFrame DEF TypeOK, socketFrame

LEMMA EndTypeInv ==
  ASSUME TypeInv, NEW s \in Slots, EndStream(s)
  PROVE  TypeInv'
<1> USE DEF TypeInv
<1>1. /\ UNCHANGED <<socketFrame, offers, flight, alive, offering, admitted, control_changed,
                     route_changed>>
      /\ alive /\ admitted = None /\ active[s] # None
      /\ finished' = finished \cup {active[s]} /\ publishing' = {s} /\ Reset(s)
      /\ active_streams' = active_streams - 1
  BY DEF EndStream, Selecting
<1>2. active \in [Slots -> Jobs \cup {None}]
  BY DEF TypeOK
<1>3. /\ generation' \in [Slots -> Nat] /\ claimed' \in [Slots -> BOOLEAN]
      /\ active' \in [Slots -> Jobs \cup {None}]
  BY <1>1, ResetTypes
<1>4. /\ IsFiniteSet(ActiveSlots) /\ active_streams = Cardinality(ActiveSlots)
      /\ s \in ActiveSlots
  BY <1>1 DEF Streams, ActiveSlots
<1>5. ActiveSlots' = ActiveSlots \ {s}
  BY <1>1, <1>2 DEF ActiveSlots, Reset
<1>6. /\ IsFiniteSet(ActiveSlots \ {s})
      /\ Cardinality(ActiveSlots \ {s}) = Cardinality(ActiveSlots) - 1
  BY <1>4, FS_RemoveElement
<1>7. Cardinality(ActiveSlots \ {s}) \in Nat
  BY <1>6, FS_CardinalityType
<1>8. Streams'
  BY <1>1, <1>4, <1>5, <1>6 DEF Streams
<1>9. active_streams' \in Nat /\ finished' \subseteq Jobs /\ publishing' \subseteq Slots
  BY <1>1, <1>2, <1>4, <1>6, <1>7 DEF TypeOK
<1> QED  BY <1>1, <1>3, <1>8, <1>9, SocketFrame DEF TypeOK, socketFrame

\* The socket takes its streams off the session's count, but for the one it could not start.
LEMMA LoseTypeInv ==
  ASSUME TypeInv, SocketLost \/ SendFailed
  PROVE  TypeInv'
<1> USE DEF TypeInv
<1>1. /\ alive /\ alive' = FALSE
      /\ UNCHANGED <<socketFrame, generation, claimed, offers, control_changed, route_changed>>
      /\ active' = [s \in Slots |-> None]
      /\ flight' = {} /\ publishing' = {} /\ offering' = NotOffering /\ admitted' = None
      /\ finished' = finished \cup {active[s] : s \in ActiveSlots} \cup {a.job : a \in flight}
                       \cup (IF admitted = None THEN {} ELSE {admitted.job})
      /\ \/ active_streams' = active_streams - Cardinality(ActiveSlots)
         \/ active_streams' = active_streams - (Cardinality(ActiveSlots) - 1)
  BY DEF SocketLost, SendFailed, Selecting, Lose
<1>2. active_streams = Cardinality(ActiveSlots) /\ Cardinality(ActiveSlots) \in Nat
  BY <1>1, FS_CardinalityType DEF Streams
<1>3. active_streams' \in Nat
  BY <1>1, <1>2
<1>4. finished' \subseteq Jobs
  BY <1>1 DEF TypeOK, ActiveSlots, Assignment
<1>5. ActiveSlots' = {}
  BY <1>1 DEF ActiveSlots
<1>6. Streams'
  BY <1>1, <1>5, FS_EmptySet DEF Streams
<1>7. active' \in [Slots -> Jobs \cup {None}]
  BY <1>1
<1> QED  BY <1>1, <1>3, <1>4, <1>6, <1>7, SocketFrame DEF TypeOK, socketFrame

LEMMA TypeInvHolds == Spec => []TypeInv
<1> USE SlotsAssumption
<1>1. Init => TypeInv
  <2> SUFFICES ASSUME Init PROVE TypeInv
    OBVIOUS
  <2>1. TypeOK
    <3>1. /\ generation \in [Slots -> Nat] /\ claimed \in [Slots -> BOOLEAN]
          /\ active \in [Slots -> Jobs \cup {None}] /\ offers \in [Pools -> Seq(Offer)]
          /\ queue \in [Pools -> SUBSET Jobs] /\ dispatcher \in [Pools -> DispatcherState]
          /\ route \in [RouteIds -> {"new", "live", "gone"}]
      BY DEF Init, DispatcherState
    <3> QED  BY <3>1 DEF Init, TypeOK
  <2>2. ActiveSlots = {}
    BY DEF Init, ActiveSlots
  <2> QED  BY <2>1, <2>2, FS_EmptySet DEF Init, TypeInv, Streams
<1>2. TypeInv /\ [Next]_vars => TypeInv'
  <2> SUFFICES ASSUME TypeInv, [Next]_vars PROVE TypeInv'
    OBVIOUS
  <2>1. CASE UNCHANGED vars
    BY <2>1
    DEF TypeInv, TypeOK, Streams, ActiveSlots, vars, slotVars, socketVars, controlVars, jobVars
  <2>2. CASE \E s \in Slots : EndStream(s)
    BY <2>2, EndTypeInv
  <2>3. CASE SocketStep
    BY <2>3, PublishTypeInv, AssignedTypeInv, StartTypeInv DEF SocketStep
  <2> QED
    BY <2>1, <2>2, <2>3, JobTypeInv, DispatcherTypeInv, LoseTypeInv, ControlTypeInv DEF Next
<1> QED  BY <1>1, <1>2, PTL DEF Spec

\* The socket task, the dispatchers, the control socket and the requests keep their state
\* well-formed: the streams a session counts (active_streams) never fall below zero,
\* however its sockets and streams end.
THEOREM WellTyped == Spec => []TypeOK
BY TypeInvHolds, PTL DEF TypeInv

-----------------------------------------------------------------------------
(* Where a request is                                                      *)

\* A request that was sent to a pool is in one place, another one in none.
OnePlace(j) ==
  IF j \in entered THEN \E x : Places(j) = {x} ELSE Places(j) = {}

JobsInv == \A j \in Jobs : OnePlace(j)

Queued(j, p) == j \in queue[p]
HeldBy(j, p) == dispatcher[p].job = j
OnTheWay(j, a) == a \in flight /\ a.job = j
Waits(j) == admitted # None /\ admitted.job = j
Runs(j, s) == active[s] = j

LEMMA PlaceKinds ==
  ASSUME NEW j
  PROVE  \A x : x \in Places(j) <=>
           \/ \E p \in Pools : x = <<"queue", p>> /\ Queued(j, p)
           \/ \E p \in Pools : x = <<"dispatcher", p>> /\ HeldBy(j, p)
           \/ \E a \in flight : x = <<"flight", a>> /\ OnTheWay(j, a)
           \/ x = <<"admitted", j>> /\ Waits(j)
           \/ \E s \in Slots : x = <<"active", s>> /\ Runs(j, s)
           \/ x = <<"finished", j>> /\ j \in finished
BY DEF Places, Queued, HeldBy, OnTheWay, Waits, Runs

LEMMA PlaceKindsNext ==
  ASSUME NEW j
  PROVE  \A x : x \in Places(j)' <=>
           \/ \E p \in Pools : x = <<"queue", p>> /\ Queued(j, p)'
           \/ \E p \in Pools : x = <<"dispatcher", p>> /\ HeldBy(j, p)'
           \/ \E a \in flight' : x = <<"flight", a>> /\ OnTheWay(j, a)'
           \/ x = <<"admitted", j>> /\ Waits(j)'
           \/ \E s \in Slots : x = <<"active", s>> /\ Runs(j, s)'
           \/ x = <<"finished", j>> /\ j \in finished'
BY DEF Places, Queued, HeldBy, OnTheWay, Waits, Runs

\* A request that is somewhere was sent, and is nowhere else.
LEMMA NowhereElse ==
  ASSUME NEW j, OnePlace(j), NEW x \in Places(j)
  PROVE  j \in entered /\ \A y \in Places(j) : y = x
BY DEF OnePlace

LEMMA QueuedOnly ==
  ASSUME NEW j, OnePlace(j), NEW p \in Pools, Queued(j, p)
  PROVE  /\ j \in entered /\ \A q \in Pools \ {p} : ~ Queued(j, q)
         /\ \A q \in Pools : ~ HeldBy(j, q)
         /\ \A a \in flight : ~ OnTheWay(j, a)
         /\ ~ Waits(j) /\ j \notin finished
         /\ \A s \in Slots : ~ Runs(j, s)
<1>1. <<"queue", p>> \in Places(j)
  BY PlaceKinds
<1>2. j \in entered /\ \A y \in Places(j) : y = <<"queue", p>>
  BY <1>1, NowhereElse
<1> QED  BY <1>2, PlaceKinds

LEMMA HeldOnly ==
  ASSUME NEW j, OnePlace(j), NEW p \in Pools, HeldBy(j, p)
  PROVE  /\ j \in entered /\ \A q \in Pools \ {p} : ~ HeldBy(j, q)
         /\ \A q \in Pools : ~ Queued(j, q)
         /\ \A a \in flight : ~ OnTheWay(j, a)
         /\ ~ Waits(j) /\ j \notin finished
         /\ \A s \in Slots : ~ Runs(j, s)
<1>1. <<"dispatcher", p>> \in Places(j)
  BY PlaceKinds
<1>2. j \in entered /\ \A y \in Places(j) : y = <<"dispatcher", p>>
  BY <1>1, NowhereElse
<1> QED  BY <1>2, PlaceKinds

LEMMA OnTheWayOnly ==
  ASSUME NEW j, OnePlace(j), NEW a \in flight, OnTheWay(j, a)
  PROVE  /\ j \in entered /\ \A b \in flight \ {a} : ~ OnTheWay(j, b)
         /\ \A q \in Pools : ~ Queued(j, q) /\ ~ HeldBy(j, q)
         /\ ~ Waits(j) /\ j \notin finished
         /\ \A s \in Slots : ~ Runs(j, s)
<1>1. <<"flight", a>> \in Places(j)
  BY PlaceKinds
<1>2. j \in entered /\ \A y \in Places(j) : y = <<"flight", a>>
  BY <1>1, NowhereElse
<1> QED  BY <1>2, PlaceKinds

LEMMA WaitsOnly ==
  ASSUME NEW j, OnePlace(j), Waits(j)
  PROVE  /\ j \in entered
         /\ \A q \in Pools : ~ Queued(j, q) /\ ~ HeldBy(j, q)
         /\ \A a \in flight : ~ OnTheWay(j, a)
         /\ j \notin finished
         /\ \A s \in Slots : ~ Runs(j, s)
<1>1. <<"admitted", j>> \in Places(j)
  BY PlaceKinds
<1>2. j \in entered /\ \A y \in Places(j) : y = <<"admitted", j>>
  BY <1>1, NowhereElse
<1> QED  BY <1>2, PlaceKinds

LEMMA RunsOnly ==
  ASSUME NEW j, OnePlace(j), NEW s \in Slots, Runs(j, s)
  PROVE  /\ j \in entered /\ \A t \in Slots \ {s} : ~ Runs(j, t)
         /\ \A q \in Pools : ~ Queued(j, q) /\ ~ HeldBy(j, q)
         /\ \A a \in flight : ~ OnTheWay(j, a)
         /\ ~ Waits(j) /\ j \notin finished
<1>1. <<"active", s>> \in Places(j)
  BY PlaceKinds
<1>2. j \in entered /\ \A y \in Places(j) : y = <<"active", s>>
  BY <1>1, NowhereElse
<1> QED  BY <1>2, PlaceKinds

\* A request the step does not touch.
LEMMA Untouched ==
  ASSUME NEW j, OnePlace(j), j \in entered' <=> j \in entered,
         \A p \in Pools : (Queued(j, p)' <=> Queued(j, p)) /\ (HeldBy(j, p)' <=> HeldBy(j, p)),
         \A a : OnTheWay(j, a)' <=> OnTheWay(j, a),
         Waits(j)' <=> Waits(j),
         \A s \in Slots : Runs(j, s)' <=> Runs(j, s),
         j \in finished' <=> j \in finished
  PROVE  OnePlace(j)'
<1>1. \A a : OnTheWay(j, a) => a \in flight
  BY DEF OnTheWay
<1>2. \A a : OnTheWay(j, a)' => a \in flight'
  BY DEF OnTheWay
<1>3. \A x : x \in Places(j)' <=> x \in Places(j)
  BY <1>1, <1>2, PlaceKinds, PlaceKindsNext
<1>4. Places(j)' = Places(j)
  BY <1>3 DEF Places
<1> QED  BY <1>4 DEF OnePlace

\* A request that has moved to x.
LEMMA MovedTo ==
  ASSUME NEW j, j \in entered', NEW x \in Places(j)', \A y \in Places(j)' : y = x
  PROVE  OnePlace(j)'
<1>1. Places(j)' = {x}
  BY DEF Places
<1> QED  BY <1>1 DEF OnePlace

-----------------------------------------------------------------------------
(* A dispatcher's step and its job                                         *)

\* What the steps of a dispatcher leave alone of a request.
LEMMA DispatcherKeeps ==
  ASSUME NEW p \in Pools, DispatcherStep(p), NEW j
  PROVE  /\ entered' = entered
         /\ Waits(j)' <=> Waits(j)
         /\ \A s \in Slots : Runs(j, s)' <=> Runs(j, s)
<1>1. UNCHANGED <<entered, admitted, active>>
  BY DEF DispatcherStep, Sweep, Pick, Claim, Recheck, Abandon, Release, Assign,
         dispatchFrame, slotVars, socketVars
<1> QED  BY <1>1 DEF Waits, Runs

\* The dispatcher lets its job go: to its queue, to the socket task, or to be dropped.
LEMMA LetGo ==
  ASSUME SlotsAssumption, TypeInv, JobsInv, NEW p \in Pools, DispatcherStep(p),
         dispatcher[p].pc # "idle", dispatcher' = [dispatcher EXCEPT ![p] = Idle],
         \/ Requeue(p) /\ UNCHANGED <<flight, finished>>
         \/ /\ \E a : a.job = dispatcher[p].job /\ flight' = flight \cup {a}
            /\ UNCHANGED <<queue, finished>>
         \/ finished' = finished \cup {dispatcher[p].job} /\ UNCHANGED <<queue, flight>>
  PROVE  JobsInv'
<1> PICK h : h = dispatcher[p].job
  OBVIOUS
<1>1. h \in Jobs /\ None \notin Jobs /\ HeldBy(h, p)
  BY HeldByDispatcher DEF SlotsAssumption, TypeInv, HeldBy
<1>2. \A q \in Pools : dispatcher'[q].job = IF q = p THEN None ELSE dispatcher[q].job
  BY DEF TypeInv, TypeOK, Idle
<1>3. queue \in [Pools -> SUBSET Jobs]
  BY DEF TypeInv, TypeOK
<1>4. ASSUME NEW j \in Jobs, j # h PROVE OnePlace(j)'
  <2>1. \A q \in Pools : Queued(j, q)' <=> Queued(j, q)
    BY <1>3, <1>4 DEF Queued, Requeue
  <2>2. \A q \in Pools : HeldBy(j, q)' <=> HeldBy(j, q)
    BY <1>1, <1>2, <1>4 DEF HeldBy
  <2>3. \A a : OnTheWay(j, a)' <=> OnTheWay(j, a)
    BY <1>4 DEF OnTheWay
  <2>4. j \in finished' <=> j \in finished
    BY <1>4
  <2> QED  BY <2>1, <2>2, <2>3, <2>4, DispatcherKeeps, Untouched DEF JobsInv
<1>5. OnePlace(h)'
  <2>1. /\ h \in entered' /\ ~ Waits(h)' /\ \A s \in Slots : ~ Runs(h, s)'
        /\ \A q \in Pools : ~ Queued(h, q)
        /\ \A a \in flight : ~ OnTheWay(h, a)
        /\ h \notin finished
    BY <1>1, HeldOnly, DispatcherKeeps DEF JobsInv
  <2>2. \A q \in Pools : dispatcher'[q].job # h
    <3>1. \A q \in Pools \ {p} : ~ HeldBy(h, q)
      BY <1>1, HeldOnly DEF JobsInv
    <3> QED  BY <1>1, <1>2, <3>1 DEF HeldBy
  <2>3. CASE Requeue(p) /\ UNCHANGED <<flight, finished>>
    <3>1. \A q \in Pools : h \in queue'[q] <=> q = p
      BY <1>3, <2>1, <2>3 DEF Requeue, Queued
    <3>2. <<"queue", p>> \in Places(h)' /\ \A y \in Places(h)' : y = <<"queue", p>>
      BY <2>1, <2>2, <2>3, <3>1, PlaceKindsNext DEF Queued, HeldBy, OnTheWay
    <3> QED  BY <2>1, <3>2, MovedTo
  <2>4. CASE /\ \E a : a.job = h /\ flight' = flight \cup {a}
             /\ UNCHANGED <<queue, finished>>
    <3>1. PICK a : a.job = h /\ flight' = flight \cup {a}
      BY <2>4
    <3>2. <<"flight", a>> \in Places(h)' /\ \A y \in Places(h)' : y = <<"flight", a>>
      BY <2>1, <2>2, <2>4, <3>1, PlaceKindsNext DEF Queued, HeldBy, OnTheWay
    <3> QED  BY <2>1, <3>2, MovedTo
  <2>5. CASE finished' = finished \cup {h} /\ UNCHANGED <<queue, flight>>
    <3>1. <<"finished", h>> \in Places(h)' /\ \A y \in Places(h)' : y = <<"finished", h>>
      BY <2>1, <2>2, <2>5, PlaceKindsNext DEF Queued, HeldBy, OnTheWay
    <3> QED  BY <2>1, <3>1, MovedTo
  <2> QED  BY <2>3, <2>4, <2>5
<1> QED  BY <1>4, <1>5 DEF JobsInv

\* A step of the dispatcher that keeps its job.
LEMMA HoldsOn ==
  ASSUME JobsInv, NEW p \in Pools, DispatcherStep(p), UNCHANGED <<queue, flight, finished>>,
         \A q \in Pools : dispatcher'[q].job = dispatcher[q].job
  PROVE  JobsInv'
<1> SUFFICES ASSUME NEW j \in Jobs PROVE OnePlace(j)'
  BY DEF JobsInv
<1>1. \A q \in Pools : (Queued(j, q)' <=> Queued(j, q)) /\ (HeldBy(j, q)' <=> HeldBy(j, q))
  BY DEF Queued, HeldBy
<1>2. \A a : OnTheWay(j, a)' <=> OnTheWay(j, a)
  BY DEF OnTheWay
<1> QED  BY <1>1, <1>2, DispatcherKeeps, Untouched DEF JobsInv

LEMMA SamePoint ==
  ASSUME TypeOK, NEW p \in Pools, dispatcher[p].pc # "idle", NEW v \in Points,
         dispatcher' = [dispatcher EXCEPT ![p].pc = v]
  PROVE  \A q \in Pools : dispatcher'[q].job = dispatcher[q].job
<1>1. [dispatcher[p] EXCEPT !.pc = v] =
        [pc |-> v, offer |-> dispatcher[p].offer, job |-> dispatcher[p].job]
  BY HeldByDispatcher
<1>2. \A q \in Pools : dispatcher'[q] = IF q = p THEN [dispatcher[p] EXCEPT !.pc = v]
                                                 ELSE dispatcher[q]
  BY DEF TypeOK
<1> QED  BY <1>1, <1>2

LEMMA SweepJobs ==
  ASSUME TypeInv, JobsInv, NEW p \in Pools, Sweep(p)
  PROVE  JobsInv'
<1> SUFFICES ASSUME NEW j \in Jobs PROVE OnePlace(j)'
  BY DEF JobsInv
<1>1. /\ UNCHANGED <<dispatcher, flight>>
      /\ queue' = [queue EXCEPT ![p] = @ \ given_up]
      /\ finished' = finished \cup (queue[p] \cap given_up)
  BY DEF Sweep
<1>2. queue \in [Pools -> SUBSET Jobs]
  BY DEF TypeInv, TypeOK
<1>3. /\ \A q \in Pools : HeldBy(j, q)' <=> HeldBy(j, q)
      /\ \A a : OnTheWay(j, a)' <=> OnTheWay(j, a)
  BY <1>1 DEF HeldBy, OnTheWay
<1>4. CASE j \in queue[p] \cap given_up
  <2>1. /\ j \in entered' /\ ~ Waits(j)' /\ \A s \in Slots : ~ Runs(j, s)'
        /\ \A q \in Pools : ~ HeldBy(j, q)
        /\ \A q \in Pools \ {p} : ~ Queued(j, q)
        /\ \A a \in flight : ~ OnTheWay(j, a)
    BY <1>4, QueuedOnly, DispatcherKeeps DEF JobsInv, Queued, DispatcherStep
  <2>2. \A q \in Pools : j \notin queue'[q]
    BY <1>1, <1>2, <1>4, <2>1 DEF Queued
  <2>3. <<"finished", j>> \in Places(j)' /\ \A y \in Places(j)' : y = <<"finished", j>>
    BY <1>1, <1>3, <1>4, <2>1, <2>2, PlaceKindsNext DEF Queued
  <2> QED  BY <2>1, <2>3, MovedTo
<1>5. CASE j \notin queue[p] \cap given_up
  <2>1. \A q \in Pools : Queued(j, q)' <=> Queued(j, q)
    BY <1>1, <1>2, <1>5 DEF Queued
  <2>2. j \in finished' <=> j \in finished
    BY <1>1, <1>5
  <2> QED  BY <1>3, <2>1, <2>2, DispatcherKeeps, Untouched DEF JobsInv, DispatcherStep
<1> QED  BY <1>4, <1>5

LEMMA PickJobs ==
  ASSUME SlotsAssumption, TypeInv, JobsInv, NEW p \in Pools, NEW k \in Jobs, Pick(p, k)
  PROVE  JobsInv'
<1>1. /\ UNCHANGED <<flight, finished>> /\ dispatcher[p] = Idle /\ k \in queue[p]
      /\ DispatcherStep(p)
  BY DEF Pick, DispatcherStep
<1>2. CASE UNCHANGED <<dispatcher, queue>>
  BY <1>1, <1>2, HoldsOn
<1>3. CASE /\ dispatcher' = [dispatcher EXCEPT ![p] =
                               [pc |-> "checked", offer |-> Head(offers[p]), job |-> k]]
           /\ queue' = [queue EXCEPT ![p] = @ \ {k}]
  <2>1. \A q \in Pools : dispatcher'[q].job = IF q = p THEN k ELSE dispatcher[q].job
    BY <1>3 DEF TypeInv, TypeOK
  <2>2. \A q \in Pools : queue'[q] = IF q = p THEN queue[q] \ {k} ELSE queue[q]
    BY <1>3 DEF TypeInv, TypeOK
  <2>3. None \notin Jobs /\ dispatcher[p].job = None
    BY <1>1 DEF SlotsAssumption, Idle
  <2>4. ASSUME NEW j \in Jobs, j # k PROVE OnePlace(j)'
    <3>1. \A q \in Pools : (Queued(j, q)' <=> Queued(j, q)) /\ (HeldBy(j, q)' <=> HeldBy(j, q))
      BY <2>1, <2>2, <2>3, <2>4 DEF Queued, HeldBy
    <3>2. \A a : OnTheWay(j, a)' <=> OnTheWay(j, a)
      BY <1>1 DEF OnTheWay
    <3> QED  BY <1>1, <3>1, <3>2, DispatcherKeeps, Untouched DEF JobsInv
  <2>5. OnePlace(k)'
    <3>1. /\ k \in entered' /\ ~ Waits(k)' /\ \A s \in Slots : ~ Runs(k, s)'
          /\ \A q \in Pools : ~ HeldBy(k, q)
          /\ \A q \in Pools \ {p} : ~ Queued(k, q)
          /\ \A a \in flight : ~ OnTheWay(k, a)
          /\ k \notin finished
      BY <1>1, QueuedOnly, DispatcherKeeps DEF JobsInv, Queued
    <3>2. \A q \in Pools : ~ Queued(k, q)' /\ (HeldBy(k, q)' <=> q = p)
      BY <2>1, <2>2, <3>1 DEF Queued, HeldBy
    <3>3. \A a \in flight' : ~ OnTheWay(k, a)'
      BY <1>1, <3>1 DEF OnTheWay
    <3>4. <<"dispatcher", p>> \in Places(k)' /\ \A y \in Places(k)' : y = <<"dispatcher", p>>
      BY <1>1, <3>1, <3>2, <3>3, PlaceKindsNext
    <3> QED  BY <3>1, <3>4, MovedTo
  <2> QED  BY <2>4, <2>5 DEF JobsInv
<1> QED  BY <1>2, <1>3 DEF Pick

LEMMA DispatcherJobs ==
  ASSUME SlotsAssumption, TypeInv, JobsInv, NEW p \in Pools, DispatcherStep(p)
  PROVE  JobsInv'
<1>1. CASE Claim(p)
  <2>1. dispatcher[p].pc # "idle" /\ UNCHANGED <<flight, finished>>
    BY <1>1 DEF Claim
  <2>2. \/ Requeue(p)
        \/ dispatcher' = [dispatcher EXCEPT ![p].pc = "swapped"] /\ UNCHANGED queue
    BY <1>1 DEF Claim
  <2> QED  BY <2>1, <2>2, LetGo, SamePoint, HoldsOn DEF Requeue, Points, TypeInv
<1>2. CASE Recheck(p)
  <2>1. dispatcher[p].pc # "idle" /\ UNCHANGED <<flight, finished>>
    BY <1>2 DEF Recheck
  <2>2. \/ Requeue(p)
        \/ dispatcher' = [dispatcher EXCEPT ![p].pc = "owned"] /\ UNCHANGED queue
    BY <1>2 DEF Recheck
  <2> QED  BY <2>1, <2>2, LetGo, SamePoint, HoldsOn DEF Requeue, Points, TypeInv
<1>3. CASE Abandon(p) \/ Release(p)
  <2>1. dispatcher[p].pc # "idle" /\ UNCHANGED <<queue, flight>>
    BY <1>3 DEF Abandon, Release
  <2>2. \/ /\ dispatcher' = [dispatcher EXCEPT ![p] = Idle]
           /\ finished' = finished \cup {dispatcher[p].job}
        \/ dispatcher' = [dispatcher EXCEPT ![p].pc = "releasing"] /\ UNCHANGED finished
    BY <1>3 DEF Abandon, Release
  <2> QED  BY <2>1, <2>2, LetGo, SamePoint, HoldsOn DEF Points, TypeInv
<1>4. CASE Assign(p)
  <2>1. dispatcher[p].pc # "idle" /\ UNCHANGED finished
    BY <1>4 DEF Assign
  <2>2. CASE alive
    <3>1. /\ dispatcher' = [dispatcher EXCEPT ![p] = Idle] /\ UNCHANGED queue
          /\ \E a : a.job = dispatcher[p].job /\ flight' = flight \cup {a}
      BY <1>4, <2>2 DEF Assign
    <3> QED  BY <2>1, <3>1, LetGo
  <2>3. CASE ~ alive
    <3>1. Requeue(p) /\ UNCHANGED flight
      BY <1>4, <2>3 DEF Assign
    <3> QED  BY <2>1, <3>1, LetGo DEF Requeue
  <2> QED  BY <2>2, <2>3
<1> QED  BY <1>1, <1>2, <1>3, <1>4, SweepJobs, PickJobs DEF DispatcherStep

-----------------------------------------------------------------------------
(* The steps of the requests, the control socket and the socket task       *)

LEMMA EnqueueJobs ==
  ASSUME SlotsAssumption, TypeInv, JobsInv, NEW k \in Jobs, Enqueue(k)
  PROVE  JobsInv'
<1>1. /\ UNCHANGED <<dispatcher, flight, admitted, active, finished>>
      /\ k \notin entered /\ entered' = entered \cup {k} /\ JobPool[k] \in Pools
  BY DEF Enqueue, jobFrame, slotVars, socketVars, SlotsAssumption
<1>2. \A q \in Pools : queue'[q] = IF q = JobPool[k] THEN queue[q] \cup {k} ELSE queue[q]
  BY DEF TypeInv, TypeOK, Enqueue
<1>3. ASSUME NEW j
      PROVE  /\ \A q \in Pools : HeldBy(j, q)' <=> HeldBy(j, q)
             /\ \A a : OnTheWay(j, a)' <=> OnTheWay(j, a)
             /\ Waits(j)' <=> Waits(j)
             /\ \A s \in Slots : Runs(j, s)' <=> Runs(j, s)
             /\ j \in finished' <=> j \in finished
  BY <1>1 DEF HeldBy, OnTheWay, Waits, Runs
<1>4. ASSUME NEW j \in Jobs, j # k PROVE OnePlace(j)'
  <2>1. \A q \in Pools : Queued(j, q)' <=> Queued(j, q)
    BY <1>2, <1>4 DEF Queued
  <2>2. j \in entered' <=> j \in entered
    BY <1>1, <1>4
  <2> QED  BY <1>3, <2>1, <2>2, Untouched DEF JobsInv
<1>5. OnePlace(k)'
  <2>1. Places(k) = {} /\ k \in entered'
    BY <1>1 DEF JobsInv, OnePlace
  <2>2. /\ \A q \in Pools : ~ Queued(k, q) /\ ~ HeldBy(k, q)
        /\ \A a \in flight : ~ OnTheWay(k, a)
        /\ ~ Waits(k) /\ k \notin finished /\ \A s \in Slots : ~ Runs(k, s)
    BY <2>1, PlaceKinds
  <2>3. \A q \in Pools : Queued(k, q)' <=> q = JobPool[k]
    BY <1>2, <2>2 DEF Queued
  <2>4. \A a \in flight' : ~ OnTheWay(k, a)'
    BY <1>1, <1>3, <2>2
  <2>5. <<"queue", JobPool[k]>> \in Places(k)' /\ \A y \in Places(k)' : y = <<"queue", JobPool[k]>>
    BY <1>1, <1>3, <2>2, <2>3, <2>4, PlaceKindsNext
  <2> QED  BY <2>1, <2>5, MovedTo
<1> QED  BY <1>4, <1>5 DEF JobsInv

\* A step that leaves the places of every request alone.
LEMMA QuietJobs ==
  ASSUME JobsInv, UNCHANGED <<queue, dispatcher, flight, admitted, active, finished, entered>>
  PROVE  JobsInv'
<1> SUFFICES ASSUME NEW j \in Jobs PROVE OnePlace(j)'
  BY DEF JobsInv
<1>1. /\ \A q \in Pools : (Queued(j, q)' <=> Queued(j, q)) /\ (HeldBy(j, q)' <=> HeldBy(j, q))
      /\ \A a : OnTheWay(j, a)' <=> OnTheWay(j, a)
      /\ Waits(j)' <=> Waits(j)
      /\ \A s \in Slots : Runs(j, s)' <=> Runs(j, s)
  BY DEF Queued, HeldBy, OnTheWay, Waits, Runs
<1> QED  BY <1>1, Untouched DEF JobsInv

\* The socket task takes one request from where it is to the next place: an assignment is
\* admitted, starts its stream or is rejected, or a stream ends.
LEMMA SocketMovesJob ==
  ASSUME JobsInv, UNCHANGED <<queue, dispatcher, entered>>, NEW k \in Jobs,
         \A j \in Jobs \ {k} :
           /\ \A a : OnTheWay(j, a)' <=> OnTheWay(j, a)
           /\ Waits(j)' <=> Waits(j)
           /\ \A s \in Slots : Runs(j, s)' <=> Runs(j, s)
           /\ j \in finished' <=> j \in finished,
         k \in entered, \A q \in Pools : ~ Queued(k, q) /\ ~ HeldBy(k, q),
         \A a \in flight' : ~ OnTheWay(k, a)',
         \/ Waits(k)' /\ k \notin finished' /\ \A s \in Slots : ~ Runs(k, s)'
         \/ ~ Waits(k)' /\ k \in finished' /\ \A s \in Slots : ~ Runs(k, s)'
         \/ /\ ~ Waits(k)' /\ k \notin finished'
            /\ \E t \in Slots : \A s \in Slots : Runs(k, s)' <=> s = t
  PROVE  JobsInv'
<1>1. ASSUME NEW j PROVE \A q \in Pools : (Queued(j, q)' <=> Queued(j, q)) /\ (HeldBy(j, q)' <=> HeldBy(j, q))
  BY DEF Queued, HeldBy
<1>2. ASSUME NEW j \in Jobs, j # k PROVE OnePlace(j)'
  <2>1. OnePlace(j) /\ (j \in entered' <=> j \in entered)
    BY DEF JobsInv
  <2> QED  BY <1>1, <1>2, <2>1, Untouched
<1>3. OnePlace(k)'
  <2>1. \A q \in Pools : ~ Queued(k, q)' /\ ~ HeldBy(k, q)'
    BY <1>1
  <2>2. CASE Waits(k)' /\ k \notin finished' /\ \A s \in Slots : ~ Runs(k, s)'
    <3>1. <<"admitted", k>> \in Places(k)' /\ \A y \in Places(k)' : y = <<"admitted", k>>
      BY <2>1, <2>2, PlaceKindsNext
    <3> QED  BY <3>1, MovedTo
  <2>3. CASE ~ Waits(k)' /\ k \in finished' /\ \A s \in Slots : ~ Runs(k, s)'
    <3>1. <<"finished", k>> \in Places(k)' /\ \A y \in Places(k)' : y = <<"finished", k>>
      BY <2>1, <2>3, PlaceKindsNext
    <3> QED  BY <3>1, MovedTo
  <2>4. CASE /\ ~ Waits(k)' /\ k \notin finished'
             /\ \E t \in Slots : \A s \in Slots : Runs(k, s)' <=> s = t
    <3> PICK t \in Slots : \A s \in Slots : Runs(k, s)' <=> s = t
      BY <2>4
    <3>1. <<"active", t>> \in Places(k)' /\ \A y \in Places(k)' : y = <<"active", t>>
      BY <2>1, <2>4, PlaceKindsNext
    <3> QED  BY <3>1, MovedTo
  <2> QED  BY <2>2, <2>3, <2>4
<1> QED  BY <1>2, <1>3 DEF JobsInv

LEMMA ReceiveJobs ==
  ASSUME SlotsAssumption, TypeInv, JobsInv, NEW a \in flight, Receive(a)
  PROVE  JobsInv'
<1>1. a \in Assignment /\ a.job \in Jobs /\ a # None
  BY DEF TypeInv, TypeOK, Assignment, SlotsAssumption
<1>2. /\ admitted = None /\ flight' = flight \ {a}
      /\ UNCHANGED <<queue, dispatcher, entered>>
      /\ \/ admitted' = a /\ UNCHANGED <<active, finished>>
         \/ Reject(a) /\ UNCHANGED admitted
  BY DEF Receive, Selecting, socketFrame, slotVars
<1>3. active' = active /\ (admitted' = a => UNCHANGED finished)
      /\ (admitted' # a => finished' = finished \cup {a.job} /\ admitted' = None)
  BY <1>1, <1>2, RejectTypes DEF Reject, TypeInv
<1> PICK k : k = a.job
  OBVIOUS
<1>4. /\ k \in entered /\ \A b \in flight \ {a} : ~ OnTheWay(k, b)
      /\ \A q \in Pools : ~ Queued(k, q) /\ ~ HeldBy(k, q)
      /\ k \notin finished /\ \A s \in Slots : ~ Runs(k, s)
  BY <1>1, OnTheWayOnly DEF JobsInv, OnTheWay
<1>5. \A b \in flight' : ~ OnTheWay(k, b)'
  BY <1>2, <1>4 DEF OnTheWay
<1>6. \A j, s : Runs(j, s)' <=> Runs(j, s)
  BY <1>3 DEF Runs
<1>7. \A j \in Jobs \ {k} :
        /\ \A b : OnTheWay(j, b)' <=> OnTheWay(j, b)
        /\ Waits(j)' <=> Waits(j)
        /\ j \in finished' <=> j \in finished
  BY <1>2, <1>3 DEF OnTheWay, Waits
<1>8. CASE admitted' = a
  <2>1. Waits(k)'
    BY <1>1, <1>8 DEF Waits
  <2> QED  BY <1>1, <1>2, <1>3, <1>4, <1>5, <1>6, <1>7, <1>8, <2>1, SocketMovesJob
<1>9. CASE admitted' # a
  <2>1. ~ Waits(k)' /\ k \in finished'
    BY <1>3, <1>9 DEF Waits
  <2> QED  BY <1>1, <1>2, <1>4, <1>5, <1>6, <1>7, <2>1, SocketMovesJob
<1> QED  BY <1>8, <1>9

LEMMA RejectRouteJobs ==
  ASSUME TypeInv, JobsInv, RejectRoute
  PROVE  JobsInv'
<1>1. /\ admitted \in Assignment /\ Reject(admitted) /\ admitted' = None
      /\ UNCHANGED <<queue, dispatcher, entered, flight>>
  BY DEF RejectRoute, socketFrame, TypeInv, TypeOK
<1>2. active' = active /\ finished' = finished \cup {admitted.job} /\ admitted.job \in Jobs
  BY <1>1, RejectTypes DEF Reject, TypeInv, Assignment
<1> PICK k : k = admitted.job
  OBVIOUS
<1>3. /\ k \in entered /\ \A b \in flight : ~ OnTheWay(k, b)
      /\ \A q \in Pools : ~ Queued(k, q) /\ ~ HeldBy(k, q)
      /\ \A s \in Slots : ~ Runs(k, s)
  <2>1. Waits(k)
    BY DEF Waits, RejectRoute
  <2> QED  BY <1>2, <2>1, WaitsOnly DEF JobsInv
<1>4. \A j, s : Runs(j, s)' <=> Runs(j, s)
  BY <1>2 DEF Runs
<1>5. \A j \in Jobs \ {k} :
        /\ \A b : OnTheWay(j, b)' <=> OnTheWay(j, b)
        /\ Waits(j)' <=> Waits(j)
        /\ j \in finished' <=> j \in finished
  BY <1>1, <1>2 DEF OnTheWay, Waits
<1>6. ~ Waits(k)' /\ k \in finished' /\ \A b \in flight' : ~ OnTheWay(k, b)'
  BY <1>1, <1>2, <1>3 DEF Waits, OnTheWay
<1> QED  BY <1>1, <1>2, <1>3, <1>4, <1>5, <1>6, SocketMovesJob

\* The slot a stream starts on has none: an assignment waits for nothing else.
LEMMA StartJobs ==
  ASSUME SlotsAssumption, TypeInv, JobsInv, StartStream
  PROVE  JobsInv'
<1>1. /\ admitted \in Assignment /\ admitted' = None
      /\ active' = [active EXCEPT ![admitted.slot] = admitted.job]
      /\ UNCHANGED <<queue, dispatcher, entered, flight, finished>>
  BY DEF StartStream, socketFrame, TypeInv, TypeOK
<1> PICK k, t : k = admitted.job /\ t = admitted.slot
  OBVIOUS
<1>2. k \in Jobs /\ t \in Slots /\ None \notin Jobs /\ active[t] = None
  BY <1>1 DEF Assignment, SlotsAssumption, TypeInv, Streams, StartStream
<1>3. \A s \in Slots : active'[s] = IF s = t THEN k ELSE active[s]
  BY <1>1 DEF TypeInv, TypeOK
<1>4. /\ k \in entered /\ \A b \in flight : ~ OnTheWay(k, b)
      /\ \A q \in Pools : ~ Queued(k, q) /\ ~ HeldBy(k, q)
      /\ \A s \in Slots : ~ Runs(k, s)
      /\ k \notin finished
  <2>1. Waits(k)
    BY DEF Waits, StartStream
  <2> QED  BY <1>2, <2>1, WaitsOnly DEF JobsInv
<1>5. \A j \in Jobs \ {k} :
        /\ \A b : OnTheWay(j, b)' <=> OnTheWay(j, b)
        /\ Waits(j)' <=> Waits(j)
        /\ \A s \in Slots : Runs(j, s)' <=> Runs(j, s)
        /\ j \in finished' <=> j \in finished
  BY <1>1, <1>2, <1>3 DEF OnTheWay, Waits, Runs
<1>6. ~ Waits(k)' /\ k \notin finished' /\ \A b \in flight' : ~ OnTheWay(k, b)'
  BY <1>1, <1>4 DEF Waits, OnTheWay
<1>7. \A s \in Slots : Runs(k, s)' <=> s = t
  BY <1>2, <1>3, <1>4 DEF Runs
<1> QED  BY <1>1, <1>2, <1>4, <1>5, <1>6, <1>7, SocketMovesJob

LEMMA EndJobs ==
  ASSUME SlotsAssumption, TypeInv, JobsInv, NEW t \in Slots, EndStream(t)
  PROVE  JobsInv'
<1>1. /\ active' = [active EXCEPT ![t] = None] /\ active[t] # None
      /\ finished' = finished \cup {active[t]}
      /\ UNCHANGED <<queue, dispatcher, entered, flight, admitted>>
  BY DEF EndStream, Reset, socketFrame
<1> PICK k : k = active[t]
  OBVIOUS
<1>2. k \in Jobs /\ None \notin Jobs
  BY <1>1 DEF SlotsAssumption, TypeInv, TypeOK
<1>3. \A s \in Slots : active'[s] = IF s = t THEN None ELSE active[s]
  BY <1>1 DEF TypeInv, TypeOK
<1>4. /\ k \in entered /\ \A b \in flight : ~ OnTheWay(k, b)
      /\ \A q \in Pools : ~ Queued(k, q) /\ ~ HeldBy(k, q)
      /\ \A s \in Slots \ {t} : ~ Runs(k, s)
      /\ ~ Waits(k)
  BY <1>2, RunsOnly DEF JobsInv, Runs
<1>5. \A j \in Jobs \ {k} :
        /\ \A b : OnTheWay(j, b)' <=> OnTheWay(j, b)
        /\ Waits(j)' <=> Waits(j)
        /\ \A s \in Slots : Runs(j, s)' <=> Runs(j, s)
        /\ j \in finished' <=> j \in finished
  BY <1>1, <1>2, <1>3 DEF OnTheWay, Waits, Runs
<1>6. ~ Waits(k)' /\ k \in finished' /\ \A b \in flight' : ~ OnTheWay(k, b)'
  BY <1>1, <1>4 DEF Waits, OnTheWay
<1>7. \A s \in Slots : ~ Runs(k, s)'
  BY <1>2, <1>3, <1>4 DEF Runs
<1> QED  BY <1>1, <1>2, <1>4, <1>5, <1>6, <1>7, SocketMovesJob

\* Everything the socket task has in hand is answered when it ends.
LEMMA LoseJobs ==
  ASSUME SlotsAssumption, TypeInv, JobsInv, SocketLost \/ SendFailed
  PROVE  JobsInv'
<1>1. /\ UNCHANGED <<queue, dispatcher, entered>>
      /\ active' = [s \in Slots |-> None] /\ flight' = {} /\ admitted' = None
      /\ finished' = finished \cup {active[s] : s \in ActiveSlots} \cup {a.job : a \in flight}
                       \cup (IF admitted = None THEN {} ELSE {admitted.job})
  BY DEF SocketLost, SendFailed, Lose, socketFrame
<1> SUFFICES ASSUME NEW j \in Jobs PROVE OnePlace(j)'
  BY DEF JobsInv
<1>2. OnePlace(j) /\ j # None
  BY DEF JobsInv, SlotsAssumption
<1>3. /\ ~ Waits(j)' /\ \A a : ~ OnTheWay(j, a)' /\ \A s \in Slots : ~ Runs(j, s)'
      /\ \A q \in Pools : (Queued(j, q)' <=> Queued(j, q)) /\ (HeldBy(j, q)' <=> HeldBy(j, q))
  BY <1>1, <1>2 DEF Waits, OnTheWay, Runs, Queued, HeldBy
<1>4. CASE Waits(j) \/ (\E a \in flight : OnTheWay(j, a)) \/ \E s \in Slots : Runs(j, s)
  <2>1. j \in entered /\ \A q \in Pools : ~ Queued(j, q) /\ ~ HeldBy(j, q)
    BY <1>2, <1>4, WaitsOnly, OnTheWayOnly, RunsOnly
  <2>2. j \in finished'
    BY <1>1, <1>2, <1>4 DEF Waits, OnTheWay, Runs, ActiveSlots
  <2>3. <<"finished", j>> \in Places(j)' /\ \A y \in Places(j)' : y = <<"finished", j>>
    BY <1>3, <2>1, <2>2, PlaceKindsNext
  <2> QED  BY <1>1, <2>1, <2>3, MovedTo
<1>5. CASE ~ (Waits(j) \/ (\E a \in flight : OnTheWay(j, a)) \/ \E s \in Slots : Runs(j, s))
  <2>1. j \in finished' <=> j \in finished
    BY <1>1, <1>5 DEF Waits, OnTheWay, Runs, ActiveSlots
  <2>2. \A a : ~ OnTheWay(j, a)
    BY <1>5 DEF OnTheWay
  <2> QED  BY <1>1, <1>2, <1>3, <1>5, <2>1, <2>2, Untouched
<1> QED  BY <1>4, <1>5

LEMMA JobsInvHolds == Spec => [](TypeInv /\ JobsInv)
<1> USE SlotsAssumption
<1>1. Init => JobsInv
  <2> SUFFICES ASSUME Init, NEW j \in Jobs PROVE OnePlace(j)
    BY DEF JobsInv
  <2>1. \A x : x \notin Places(j)
    BY PlaceKinds DEF Init, Idle, SlotsAssumption, Queued, HeldBy, OnTheWay, Waits, Runs
  <2>2. Places(j) = {}
    BY <2>1
  <2> QED  BY <2>2 DEF Init, OnePlace
<1>2. TypeInv /\ JobsInv /\ [Next]_vars => JobsInv'
  <2> SUFFICES ASSUME TypeInv, JobsInv, [Next]_vars PROVE JobsInv'
    OBVIOUS
  <2>1. CASE UNCHANGED vars
    BY <2>1, QuietJobs DEF vars, slotVars, socketVars, jobVars
  <2>2. CASE \E j \in Jobs : Enqueue(j) \/ GiveUp(j)
    BY <2>2, EnqueueJobs, QuietJobs DEF GiveUp, jobFrame, slotVars, socketVars
  <2>3. CASE SocketStep
    <3>1. CASE PublishSlot \/ PublishOffer \/ ControlChanged \/ RouteChanged
      BY <3>1, QuietJobs
      DEF PublishSlot, PublishOffer, ControlChanged, RouteChanged, socketFrame, slotVars
    <3> QED  BY <2>3, <3>1, ReceiveJobs, RejectRouteJobs, StartJobs DEF SocketStep
  <2>4. CASE ControlStep
    <3>1. UNCHANGED controlFrame
      BY <2>4 DEF ControlStep, DetachControl, AttachControl, RegisterRoute, UnregisterRoute
    <3> QED  BY <3>1, QuietJobs DEF controlFrame, slotVars, socketVars, jobVars
  <2>5. CASE \E s \in Slots : EndStream(s)
    BY <2>5, EndJobs
  <2>6. CASE \E p \in Pools : DispatcherStep(p)
    BY <2>6, DispatcherJobs
  <2> QED  BY <2>1, <2>2, <2>3, <2>4, <2>5, <2>6, LoseJobs DEF Next
<1> QED  BY <1>1, <1>2, TypeInvHolds, PTL DEF Spec

\* For any number of slots, pools, routes and requests: a request that was sent to a pool
\* is in exactly one place until it is answered or dropped, whatever claims fail and
\* whatever sockets, routes and control connections go away (dispatch_requests, the
\* assignment relay, run_split_data_socket).
THEOREM JobsConserved == Spec => []JobConservation
<1>1. JobsInv => JobConservation
  <2> SUFFICES ASSUME JobsInv, NEW j \in Jobs
               PROVE  Cardinality(Places(j)) = IF j \in entered THEN 1 ELSE 0
    BY DEF JobConservation
  <2>1. CASE j \in entered
    <3> PICK x : Places(j) = {x}
      BY <2>1 DEF JobsInv, OnePlace
    <3>1. Cardinality({x}) = 1
      BY FS_Singleton
    <3> QED  BY <2>1, <3>1
  <2>2. CASE j \notin entered
    BY <2>2, FS_EmptySet DEF JobsInv, OnePlace
  <2> QED  BY <2>1, <2>2
<1> QED  BY <1>1, JobsInvHolds, PTL

-----------------------------------------------------------------------------
(* A single route: where the capacity of a slot is                         *)

\* Nothing was registered or lost since the data socket opened, with route r only.
Single(r) ==
  /\ alive /\ detaches = 0
  /\ r \in RegisteredFirst /\ route[r] = "live"
  /\ \A q \in RouteIds \ {r} : route[q] = "new"

\* Where the capacity of slot s may be: with the socket task, in the list of pool p, with
\* the pool's dispatcher, on the way, or in a stream.
OfferedIn(s, p) == \E i \in DOMAIN offers[p] : offers[p][i].slot = s
Picked(s, p) == dispatcher[p].pc # "idle" /\ dispatcher[p].offer.slot = s
Flies(s, a) == a \in flight /\ a.slot = s
IsAdmitted(s) == admitted # None /\ admitted.slot = s

Spots(s, p) ==
  {<<"publishing", x>> : x \in publishing \cap {s}}
    \cup {<<"offering", x>> : x \in {offering.slot} \cap {s}}
    \cup {<<"offers", x>> : x \in {x \in {s} : OfferedIn(s, p)}}
    \cup {<<"dispatcher", x>> : x \in {x \in {s} : Picked(s, p)}}
    \cup {<<"flight", a>> : a \in {a \in flight : a.slot = s}}
    \cup {<<"admitted", x>> : x \in {x \in {s} : IsAdmitted(s)}}
    \cup {<<"active", x>> : x \in {x \in {s} : active[s] # None}}

\* The capacity of a slot is in one spot: free, and then its flag is clear, or taken.
SlotWhole(s, p) ==
  /\ \E x : Spots(s, p) = {x}
  /\ claimed[s] <=> \/ Picked(s, p) /\ dispatcher[p].pc # "checked"
                    \/ (\E a \in flight : a.slot = s) \/ IsAdmitted(s) \/ active[s] # None

\* Pool p's offers: one of a slot, of its present generation.
OffersOK(r, p) ==
  /\ \A i \in DOMAIN offers[p] : offers[p][i].route = r /\ Current(offers[p][i])
  /\ \A i, j \in DOMAIN offers[p] : offers[p][i].slot = offers[p][j].slot => i = j

\* Only route r and its pool p are in use, and control is as it was at the start.
OnlyRoute(r, p) ==
  /\ control_attached /\ ~ control_changed /\ ~ route_changed
  /\ \A q \in Pools \ {p} : DOMAIN offers[q] = {} /\ dispatcher[q] = Idle
  /\ offering # NotOffering => offering.routes = {r}
  /\ OffersOK(r, p)
  /\ dispatcher[p].pc # "idle" => dispatcher[p].offer.route = r /\ Current(dispatcher[p].offer)
  /\ \A a \in flight : a.route = r
  /\ admitted # None => admitted.route = r

Whole(r, p) == OnlyRoute(r, p) /\ \A s \in Slots : SlotWhole(s, p)

LEMMA SpotKinds ==
  ASSUME NEW s, NEW p
  PROVE  \A x : x \in Spots(s, p) <=>
           \/ x = <<"publishing", s>> /\ s \in publishing
           \/ x = <<"offering", s>> /\ offering.slot = s
           \/ x = <<"offers", s>> /\ OfferedIn(s, p)
           \/ x = <<"dispatcher", s>> /\ Picked(s, p)
           \/ \E a \in flight : x = <<"flight", a>> /\ Flies(s, a)
           \/ x = <<"admitted", s>> /\ IsAdmitted(s)
           \/ x = <<"active", s>> /\ active[s] # None
BY DEF Spots, Flies

LEMMA SpotKindsNext ==
  ASSUME NEW s, NEW p
  PROVE  \A x : x \in Spots(s, p)' <=>
           \/ x = <<"publishing", s>> /\ s \in publishing'
           \/ x = <<"offering", s>> /\ offering'.slot = s
           \/ x = <<"offers", s>> /\ OfferedIn(s, p)'
           \/ x = <<"dispatcher", s>> /\ Picked(s, p)'
           \/ \E a \in flight' : x = <<"flight", a>> /\ Flies(s, a)'
           \/ x = <<"admitted", s>> /\ IsAdmitted(s)'
           \/ x = <<"active", s>> /\ active'[s] # None
BY DEF Spots, Flies

\* Where the capacity is, it is nowhere else.
LEMMA OneSpot ==
  ASSUME NEW s, NEW p, SlotWhole(s, p)
  PROVE  /\ s \in publishing => /\ offering.slot # s /\ ~ OfferedIn(s, p) /\ ~ Picked(s, p)
                                /\ \A a : ~ Flies(s, a)
                                /\ ~ IsAdmitted(s) /\ active[s] = None
         /\ offering.slot = s => /\ s \notin publishing /\ ~ OfferedIn(s, p) /\ ~ Picked(s, p)
                                 /\ \A a : ~ Flies(s, a)
                                 /\ ~ IsAdmitted(s) /\ active[s] = None
         /\ OfferedIn(s, p) => /\ s \notin publishing /\ offering.slot # s /\ ~ Picked(s, p)
                               /\ \A a : ~ Flies(s, a)
                               /\ ~ IsAdmitted(s) /\ active[s] = None
         /\ Picked(s, p) => /\ s \notin publishing /\ offering.slot # s /\ ~ OfferedIn(s, p)
                            /\ \A a : ~ Flies(s, a)
                            /\ ~ IsAdmitted(s) /\ active[s] = None
<1> PICK x : Spots(s, p) = {x}
  BY DEF SlotWhole
<1>1. \A y, z \in Spots(s, p) : y = z
  OBVIOUS
<1>2. /\ s \in publishing => <<"publishing", s>> \in Spots(s, p)
      /\ offering.slot = s => <<"offering", s>> \in Spots(s, p)
      /\ OfferedIn(s, p) => <<"offers", s>> \in Spots(s, p)
      /\ Picked(s, p) => <<"dispatcher", s>> \in Spots(s, p)
      /\ \A a : Flies(s, a) => <<"flight", a>> \in Spots(s, p)
      /\ IsAdmitted(s) => <<"admitted", s>> \in Spots(s, p)
      /\ active[s] # None => <<"active", s>> \in Spots(s, p)
  BY DEF Spots, Flies
<1>3. /\ <<"publishing", s>> # <<"offering", s>> /\ <<"publishing", s>> # <<"offers", s>>
      /\ <<"publishing", s>> # <<"dispatcher", s>> /\ <<"offering", s>> # <<"offers", s>>
      /\ <<"offering", s>> # <<"dispatcher", s>> /\ <<"offers", s>> # <<"dispatcher", s>>
  OBVIOUS
<1>4. \A k \in {"publishing", "offering", "offers", "dispatcher"} :
        /\ \A a : <<k, s>> # <<"flight", a>>
        /\ <<k, s>> # <<"admitted", s>> /\ <<k, s>> # <<"active", s>>
  OBVIOUS
<1> QED  BY <1>1, <1>2, <1>3, <1>4

LEMMA OneSpotTaken ==
  ASSUME NEW s, NEW p, SlotWhole(s, p)
  PROVE  /\ \A a : Flies(s, a) =>
              /\ s \notin publishing /\ offering.slot # s /\ ~ OfferedIn(s, p) /\ ~ Picked(s, p)
              /\ \A b : Flies(s, b) => b = a
              /\ ~ IsAdmitted(s) /\ active[s] = None
         /\ IsAdmitted(s) =>
              /\ s \notin publishing /\ offering.slot # s /\ ~ OfferedIn(s, p) /\ ~ Picked(s, p)
              /\ (\A a : ~ Flies(s, a)) /\ active[s] = None
         /\ active[s] # None =>
              /\ s \notin publishing /\ offering.slot # s /\ ~ OfferedIn(s, p) /\ ~ Picked(s, p)
              /\ (\A a : ~ Flies(s, a)) /\ ~ IsAdmitted(s)
<1> PICK x : Spots(s, p) = {x}
  BY DEF SlotWhole
<1>1. \A y, z \in Spots(s, p) : y = z
  OBVIOUS
<1>2. /\ s \in publishing => <<"publishing", s>> \in Spots(s, p)
      /\ offering.slot = s => <<"offering", s>> \in Spots(s, p)
      /\ OfferedIn(s, p) => <<"offers", s>> \in Spots(s, p)
      /\ Picked(s, p) => <<"dispatcher", s>> \in Spots(s, p)
      /\ \A a : Flies(s, a) => <<"flight", a>> \in Spots(s, p)
      /\ IsAdmitted(s) => <<"admitted", s>> \in Spots(s, p)
      /\ active[s] # None => <<"active", s>> \in Spots(s, p)
  BY DEF Spots, Flies
<1>3. \A k \in {"publishing", "offering", "offers", "dispatcher", "admitted", "active"} :
        \A a : <<k, s>> # <<"flight", a>>
  OBVIOUS
<1>4. \A k \in {"publishing", "offering", "offers", "dispatcher"} :
        <<k, s>> # <<"admitted", s>> /\ <<k, s>> # <<"active", s>>
  OBVIOUS
<1>5. <<"admitted", s>> # <<"active", s>> /\ \A a, b : <<"flight", a>> = <<"flight", b>> => a = b
  OBVIOUS
<1>6. \A a, b : Flies(s, a) /\ Flies(s, b) => a = b
  BY <1>1, <1>2, <1>5
<1>7. \A a : Flies(s, a) =>
        /\ s \notin publishing /\ offering.slot # s /\ ~ OfferedIn(s, p) /\ ~ Picked(s, p)
        /\ ~ IsAdmitted(s) /\ active[s] = None
  BY <1>1, <1>2, <1>3
<1>8. IsAdmitted(s) \/ active[s] # None =>
        s \notin publishing /\ offering.slot # s /\ ~ OfferedIn(s, p) /\ ~ Picked(s, p)
  BY <1>1, <1>2, <1>4
<1>9. ~ (IsAdmitted(s) /\ active[s] # None)
  BY <1>1, <1>2, <1>5
<1> QED  BY <1>6, <1>7, <1>8, <1>9

\* A slot the step does not touch.
LEMMA SlotUntouched ==
  ASSUME NEW s, NEW p, SlotWhole(s, p), claimed'[s] <=> claimed[s],
         s \in publishing' <=> s \in publishing, offering'.slot = s <=> offering.slot = s,
         OfferedIn(s, p)' <=> OfferedIn(s, p),
         Picked(s, p)' <=> Picked(s, p),
         Picked(s, p) => (dispatcher'[p].pc # "checked" <=> dispatcher[p].pc # "checked"),
         \A a : Flies(s, a)' <=> Flies(s, a),
         IsAdmitted(s)' <=> IsAdmitted(s), active'[s] = active[s]
  PROVE  SlotWhole(s, p)'
<1>1. /\ \A a : Flies(s, a) <=> a \in flight /\ a.slot = s
      /\ \A a : Flies(s, a)' <=> a \in flight' /\ a.slot = s
  BY DEF Flies
<1>2. \A x : x \in Spots(s, p)' <=> x \in Spots(s, p)
  BY <1>1, SpotKinds, SpotKindsNext
<1>3. Spots(s, p)' = Spots(s, p)
  BY <1>2 DEF Spots
<1>4. (\E a \in flight' : a.slot = s) <=> (\E a \in flight : a.slot = s)
  BY <1>1
<1> QED  BY <1>3, <1>4 DEF SlotWhole

LEMMA SpotIs ==
  ASSUME NEW s, NEW p, NEW x \in Spots(s, p)', \A y \in Spots(s, p)' : y = x
  PROVE  \E z : Spots(s, p)' = {z}
<1>1. Spots(s, p)' = {x}
  OBVIOUS
<1> QED  BY <1>1

\* A slot whose capacity is free in its new spot, or taken there.
LEMMA SlotFreed ==
  ASSUME NEW s, NEW p, ~ claimed'[s], (\A a : ~ Flies(s, a)'), ~ IsAdmitted(s)', active'[s] = None,
         \/ /\ s \in publishing' /\ offering'.slot # s /\ ~ OfferedIn(s, p)' /\ ~ Picked(s, p)'
         \/ /\ s \notin publishing' /\ offering'.slot = s /\ ~ OfferedIn(s, p)' /\ ~ Picked(s, p)'
         \/ /\ s \notin publishing' /\ offering'.slot # s /\ OfferedIn(s, p)' /\ ~ Picked(s, p)'
         \/ /\ s \notin publishing' /\ offering'.slot # s /\ ~ OfferedIn(s, p)' /\ Picked(s, p)'
            /\ dispatcher'[p].pc = "checked"
  PROVE  SlotWhole(s, p)'
<1>1. \A a \in flight' : a.slot # s
  BY DEF Flies
<1>2. \A x : x \in Spots(s, p)' <=>
        \/ x = <<"publishing", s>> /\ s \in publishing'
        \/ x = <<"offering", s>> /\ offering'.slot = s
        \/ x = <<"offers", s>> /\ OfferedIn(s, p)'
        \/ x = <<"dispatcher", s>> /\ Picked(s, p)'
  BY SpotKindsNext
<1>3. CASE s \in publishing' /\ offering'.slot # s /\ ~ OfferedIn(s, p)' /\ ~ Picked(s, p)'
  <2>1. <<"publishing", s>> \in Spots(s, p)' /\ \A y \in Spots(s, p)' : y = <<"publishing", s>>
    BY <1>2, <1>3
  <2> QED  BY <1>1, <1>3, <2>1, SpotIs DEF SlotWhole
<1>4. CASE s \notin publishing' /\ offering'.slot = s /\ ~ OfferedIn(s, p)' /\ ~ Picked(s, p)'
  <2>1. <<"offering", s>> \in Spots(s, p)' /\ \A y \in Spots(s, p)' : y = <<"offering", s>>
    BY <1>2, <1>4
  <2> QED  BY <1>1, <1>4, <2>1, SpotIs DEF SlotWhole
<1>5. CASE s \notin publishing' /\ offering'.slot # s /\ OfferedIn(s, p)' /\ ~ Picked(s, p)'
  <2>1. <<"offers", s>> \in Spots(s, p)' /\ \A y \in Spots(s, p)' : y = <<"offers", s>>
    BY <1>2, <1>5
  <2> QED  BY <1>1, <1>5, <2>1, SpotIs DEF SlotWhole
<1>6. CASE /\ s \notin publishing' /\ offering'.slot # s /\ ~ OfferedIn(s, p)' /\ Picked(s, p)'
           /\ dispatcher'[p].pc = "checked"
  <2>1. <<"dispatcher", s>> \in Spots(s, p)' /\ \A y \in Spots(s, p)' : y = <<"dispatcher", s>>
    BY <1>2, <1>6
  <2> QED  BY <1>1, <1>6, <2>1, SpotIs DEF SlotWhole
<1> QED  BY <1>3, <1>4, <1>5, <1>6

LEMMA SlotTaken ==
  ASSUME NEW s, NEW p, claimed'[s], s \notin publishing', offering'.slot # s, ~ OfferedIn(s, p)',
         \/ /\ Picked(s, p)' /\ dispatcher'[p].pc # "checked"
            /\ (\A a : ~ Flies(s, a)') /\ ~ IsAdmitted(s)' /\ active'[s] = None
         \/ /\ ~ Picked(s, p)' /\ (\E a : \A b : Flies(s, b)' <=> b = a)
            /\ ~ IsAdmitted(s)' /\ active'[s] = None
         \/ /\ ~ Picked(s, p)' /\ (\A a : ~ Flies(s, a)') /\ IsAdmitted(s)' /\ active'[s] = None
         \/ /\ ~ Picked(s, p)' /\ (\A a : ~ Flies(s, a)') /\ ~ IsAdmitted(s)' /\ active'[s] # None
  PROVE  SlotWhole(s, p)'
<1>1. \A a : Flies(s, a)' <=> a \in flight' /\ a.slot = s
  BY DEF Flies
<1>2. CASE \E a : \A b : Flies(s, b)' <=> b = a
  <2>1. PICK a : \A b : Flies(s, b)' <=> b = a
    BY <1>2
  <2>2. ~ Picked(s, p)' /\ ~ IsAdmitted(s)' /\ active'[s] = None
    BY <2>1
  <2>3. <<"flight", a>> \in Spots(s, p)' /\ \A y \in Spots(s, p)' : y = <<"flight", a>>
    BY <1>1, <2>1, <2>2, SpotKindsNext
  <2>4. \E b \in flight' : b.slot = s
    BY <1>1, <2>1
  <2> QED  BY <2>3, <2>4, SpotIs DEF SlotWhole
<1>3. ASSUME \A a : ~ Flies(s, a)'
      PROVE  \A y : y \in Spots(s, p)' <=> \/ y = <<"dispatcher", s>> /\ Picked(s, p)'
                                           \/ y = <<"admitted", s>> /\ IsAdmitted(s)'
                                           \/ y = <<"active", s>> /\ active'[s] # None
  BY <1>3, SpotKindsNext
<1>4. CASE /\ Picked(s, p)' /\ dispatcher'[p].pc # "checked"
           /\ (\A a : ~ Flies(s, a)') /\ ~ IsAdmitted(s)' /\ active'[s] = None
  <2>1. <<"dispatcher", s>> \in Spots(s, p)' /\ \A y \in Spots(s, p)' : y = <<"dispatcher", s>>
    BY <1>3, <1>4
  <2> QED  BY <1>4, <2>1, SpotIs DEF SlotWhole
<1>5. CASE ~ Picked(s, p)' /\ (\A a : ~ Flies(s, a)') /\ IsAdmitted(s)' /\ active'[s] = None
  <2>1. <<"admitted", s>> \in Spots(s, p)' /\ \A y \in Spots(s, p)' : y = <<"admitted", s>>
    BY <1>3, <1>5
  <2> QED  BY <1>5, <2>1, SpotIs DEF SlotWhole
<1>6. CASE ~ Picked(s, p)' /\ (\A a : ~ Flies(s, a)') /\ ~ IsAdmitted(s)' /\ active'[s] # None
  <2>1. <<"active", s>> \in Spots(s, p)' /\ \A y \in Spots(s, p)' : y = <<"active", s>>
    BY <1>3, <1>6
  <2> QED  BY <1>6, <2>1, SpotIs DEF SlotWhole
<1> QED  BY <1>2, <1>4, <1>5, <1>6

LEMMA TailFacts ==
  ASSUME NEW S, NEW q \in Seq(S), q # <<>>
  PROVE  /\ 1 \in DOMAIN q /\ Head(q) = q[1]
         /\ \A i \in DOMAIN Tail(q) : i \in Nat \ {0} /\ i + 1 \in DOMAIN q /\ Tail(q)[i] = q[i + 1]
         /\ \A i \in DOMAIN q : i # 1 => i - 1 \in DOMAIN Tail(q) /\ Tail(q)[i - 1] = q[i]
         /\ \A i \in DOMAIN q : i \in Nat
OBVIOUS

LEMMA FrontFacts ==
  ASSUME NEW S, NEW q \in Seq(S), NEW o \in S
  PROVE  /\ 1 \in DOMAIN (<<o>> \o q) /\ (<<o>> \o q)[1] = o
         /\ \A i \in DOMAIN (<<o>> \o q) :
              i \in Nat /\ (i # 1 => i - 1 \in DOMAIN q /\ (<<o>> \o q)[i] = q[i - 1])
         /\ \A i \in DOMAIN q : i + 1 \in DOMAIN (<<o>> \o q) /\ (<<o>> \o q)[i + 1] = q[i]
OBVIOUS

LEMMA LastFacts ==
  ASSUME NEW S, NEW q \in Seq(S), NEW o \in S
  PROVE  /\ Len(q) + 1 \in DOMAIN Append(q, o) /\ Append(q, o)[Len(q) + 1] = o
         /\ \A i \in DOMAIN Append(q, o) :
              i # Len(q) + 1 => i \in DOMAIN q /\ Append(q, o)[i] = q[i]
         /\ \A i \in DOMAIN q : i \in DOMAIN Append(q, o) /\ Append(q, o)[i] = q[i]
OBVIOUS

\* The first offer is taken.
LEMMA OfferTaken ==
  ASSUME TypeOK, NEW r, NEW p \in Pools, OffersOK(r, p), offers[p] # <<>>,
         offers' = [offers EXCEPT ![p] = Tail(@)], generation' = generation
  PROVE  /\ OffersOK(r, p)'
         /\ \A s : OfferedIn(s, p)' <=> OfferedIn(s, p) /\ s # Head(offers[p]).slot
         /\ Head(offers[p]) \in Offer /\ OfferedIn(Head(offers[p]).slot, p)
         /\ Head(offers[p]).route = r /\ Current(Head(offers[p]))
<1>1. /\ offers[p] \in Seq(Offer) /\ offers'[p] = Tail(offers[p])
      /\ Head(offers[p]) \in Offer
  BY DEF TypeOK
<1> PICK q, h : q = offers[p] /\ h = Head(offers[p])
  OBVIOUS
<1>2. /\ 1 \in DOMAIN q /\ h = q[1]
      /\ \A i \in DOMAIN Tail(q) : i \in Nat \ {0} /\ i + 1 \in DOMAIN q /\ Tail(q)[i] = q[i + 1]
      /\ \A i \in DOMAIN q : i # 1 => i - 1 \in DOMAIN Tail(q) /\ Tail(q)[i - 1] = q[i]
      /\ \A i \in DOMAIN q : i \in Nat
  BY <1>1, TailFacts
<1>3. OffersOK(r, p)'
  BY <1>1, <1>2 DEF OffersOK, Current
<1>4. \A s : OfferedIn(s, p)' <=> OfferedIn(s, p) /\ s # h.slot
  <2> TAKE s
  <2>1. ASSUME OfferedIn(s, p)' PROVE OfferedIn(s, p) /\ s # h.slot
    <3> PICK i \in DOMAIN Tail(q) : Tail(q)[i].slot = s
      BY <1>1, <2>1 DEF OfferedIn
    <3>1. i + 1 \in DOMAIN q /\ q[i + 1].slot = s /\ i + 1 # 1
      BY <1>2
    <3> QED  BY <1>2, <3>1 DEF OfferedIn, OffersOK
  <2>2. ASSUME OfferedIn(s, p), s # h.slot PROVE OfferedIn(s, p)'
    <3> PICK i \in DOMAIN q : q[i].slot = s
      BY <2>2 DEF OfferedIn
    <3>1. i - 1 \in DOMAIN Tail(q) /\ Tail(q)[i - 1].slot = s
      BY <1>2, <2>2
    <3> QED  BY <1>1, <3>1 DEF OfferedIn
  <2> QED  BY <2>1, <2>2
<1>5. OfferedIn(h.slot, p) /\ h.route = r /\ Current(h)
  BY <1>2 DEF OfferedIn, OffersOK
<1> QED  BY <1>1, <1>3, <1>4, <1>5

\* An offer of a slot that has none comes in, at either end.
LEMMA OfferAdded ==
  ASSUME TypeOK, NEW r, NEW p \in Pools, OffersOK(r, p), NEW o \in Offer,
         o.route = r, Current(o), ~ OfferedIn(o.slot, p), generation' = generation,
         \/ offers' = [offers EXCEPT ![p] = <<o>> \o @]
         \/ offers' = [offers EXCEPT ![p] = Append(@, o)]
  PROVE  /\ OffersOK(r, p)'
         /\ \A s : OfferedIn(s, p)' <=> OfferedIn(s, p) \/ s = o.slot
<1>1. offers[p] \in Seq(Offer)
  BY DEF TypeOK
<1> PICK q : q = offers[p]
  OBVIOUS
<1>2. CASE offers' = [offers EXCEPT ![p] = <<o>> \o @]
  <2>1. offers'[p] = <<o>> \o q
    BY <1>2 DEF TypeOK
  <2>2. /\ 1 \in DOMAIN (<<o>> \o q) /\ (<<o>> \o q)[1] = o
        /\ \A i \in DOMAIN (<<o>> \o q) :
             i \in Nat /\ (i # 1 => i - 1 \in DOMAIN q /\ (<<o>> \o q)[i] = q[i - 1])
        /\ \A i \in DOMAIN q : i + 1 \in DOMAIN (<<o>> \o q) /\ (<<o>> \o q)[i + 1] = q[i]
    BY <1>1, FrontFacts
  <2>3. \A i \in DOMAIN q : q[i].slot # o.slot
    BY DEF OfferedIn
  <2>4. OffersOK(r, p)'
    <3> HIDE <2>1, <2>2
    <3> PICK z : z = <<o>> \o q
      OBVIOUS
    <3>1. /\ offers'[p] = z /\ z[1] = o
          /\ \A i \in DOMAIN z : i \in Nat /\ (i # 1 => i - 1 \in DOMAIN q /\ z[i] = q[i - 1])
      BY <2>1, <2>2
    <3>2. \A i \in DOMAIN z : z[i].route = r /\ Current(z[i])
      BY <3>1 DEF OffersOK
    <3>3. ASSUME NEW i \in DOMAIN z, NEW j \in DOMAIN z, z[i].slot = z[j].slot PROVE i = j
      BY <2>3, <3>1, <3>3 DEF OffersOK
    <3>4. \A x : Current(x)' <=> Current(x)
      BY DEF Current
    <3> QED  BY <3>1, <3>2, <3>3, <3>4 DEF OffersOK
  <2>5. ASSUME NEW s PROVE OfferedIn(s, p)' <=> OfferedIn(s, p) \/ s = o.slot
    <3> PICK z : z = <<o>> \o q
      OBVIOUS
    <3>1. /\ offers'[p] = z /\ 1 \in DOMAIN z /\ z[1] = o
          /\ \A i \in DOMAIN z : i # 1 => i - 1 \in DOMAIN q /\ z[i] = q[i - 1]
          /\ \A i \in DOMAIN q : i + 1 \in DOMAIN z /\ z[i + 1] = q[i]
      BY <2>1, <2>2
    <3>2. (OfferedIn(s, p)' <=> \E i \in DOMAIN z : z[i].slot = s)
            /\ (OfferedIn(s, p) <=> \E i \in DOMAIN q : q[i].slot = s)
      BY <3>1 DEF OfferedIn
    <3>3. (\E i \in DOMAIN z : z[i].slot = s) => (\E i \in DOMAIN q : q[i].slot = s) \/ s = o.slot
      BY <3>1
    <3>4. (\E i \in DOMAIN q : q[i].slot = s) \/ s = o.slot => \E i \in DOMAIN z : z[i].slot = s
      BY <3>1
    <3> QED  BY <3>2, <3>3, <3>4
  <2> QED  BY <2>4, <2>5
<1>3. CASE offers' = [offers EXCEPT ![p] = Append(@, o)]
  <2>1. offers'[p] = Append(q, o)
    BY <1>3 DEF TypeOK
  <2>2. /\ Len(q) + 1 \in DOMAIN Append(q, o) /\ Append(q, o)[Len(q) + 1] = o
        /\ \A i \in DOMAIN Append(q, o) :
             i # Len(q) + 1 => i \in DOMAIN q /\ Append(q, o)[i] = q[i]
        /\ \A i \in DOMAIN q : i \in DOMAIN Append(q, o) /\ Append(q, o)[i] = q[i]
    BY <1>1, LastFacts
  <2>3. \A i \in DOMAIN q : q[i].slot # o.slot
    BY DEF OfferedIn
  <2>4. OffersOK(r, p)'
    <3> PICK z, n : z = Append(q, o) /\ n = Len(q) + 1
      OBVIOUS
    <3>1. /\ offers'[p] = z /\ z[n] = o
          /\ \A i \in DOMAIN z : i # n => i \in DOMAIN q /\ z[i] = q[i]
      BY <2>1, <2>2
    <3>2. \A i \in DOMAIN z : z[i].route = r /\ Current(z[i])
      BY <3>1 DEF OffersOK
    <3>3. ASSUME NEW i \in DOMAIN z, NEW j \in DOMAIN z, z[i].slot = z[j].slot PROVE i = j
      BY <2>3, <3>1, <3>3 DEF OffersOK
    <3>4. \A x : Current(x)' <=> Current(x)
      BY DEF Current
    <3> QED  BY <3>1, <3>2, <3>3, <3>4 DEF OffersOK
  <2>5. \A s : OfferedIn(s, p)' <=> OfferedIn(s, p) \/ s = o.slot
    BY <2>1, <2>2 DEF OfferedIn
  <2> QED  BY <2>4, <2>5
<1> QED  BY <1>2, <1>3

\* retain keeps offers that are all usable, each once.
LEMMA OffersRetained ==
  ASSUME TypeOK, NEW r, NEW p \in Pools, OffersOK(r, p), alive, Retain(p), generation' = generation
  PROVE  OffersOK(r, p)' /\ \A s : OfferedIn(s, p)' <=> OfferedIn(s, p)
<1>1. UsableAt(p) = DOMAIN offers[p]
  BY DEF UsableAt, Usable, OffersOK
<1>2. PICK e \in InOrder(UsableAt(p)) :
        offers' = [offers EXCEPT ![p] = [i \in DOMAIN e |-> offers[p][e[i]]]]
  BY DEF Retain
<1> PICK q : q = offers[p]
  OBVIOUS
<1>3. /\ e \in [1 .. Cardinality(DOMAIN q) -> DOMAIN q]
      /\ \A i, j \in DOMAIN e : i < j => e[i] < e[j]
      /\ \A k \in DOMAIN q : \E i \in DOMAIN e : e[i] = k
  BY <1>1, <1>2 DEF InOrder
<1>4. offers'[p] = [i \in DOMAIN e |-> q[e[i]]]
  BY <1>2 DEF TypeOK
<1>5. q \in Seq(Offer) /\ \A k \in DOMAIN q : k \in Nat
  BY DEF TypeOK
<1>6. \A i, j \in DOMAIN e : e[i] = e[j] => i = j
  <2> SUFFICES ASSUME NEW i \in DOMAIN e, NEW j \in DOMAIN e, e[i] = e[j], i # j PROVE FALSE
    OBVIOUS
  <2>1. i \in Int /\ j \in Int /\ e[i] \in Nat /\ e[j] \in Nat
    BY <1>3, <1>5
  <2>2. i < j \/ j < i
    BY <2>1
  <2> QED  BY <1>3, <2>1, <2>2
<1>7. \A i \in DOMAIN e : e[i] \in DOMAIN q
  BY <1>3
<1>8. OffersOK(r, p)'
  <2>1. \A x : Current(x)' <=> Current(x)
    BY DEF Current
  <2> QED  BY <1>4, <1>6, <1>7, <2>1 DEF OffersOK
<1>9. \A s : OfferedIn(s, p)' <=> OfferedIn(s, p)
  BY <1>3, <1>4, <1>7 DEF OfferedIn
<1> QED  BY <1>8, <1>9

\* A step of the requests, or none: nothing of the slots moves.
LEMMA QuietFree ==
  ASSUME NEW r, NEW p \in Pools, Whole(r, p),
         UNCHANGED <<slotVars, offers, dispatcher, flight, socketVars, control_attached,
                     control_changed, route_changed>>
  PROVE  Whole(r, p)'
<1>1. UNCHANGED <<generation, claimed, active, publishing, offering, admitted>>
  BY DEF slotVars, socketVars
<1>2. OnlyRoute(r, p)'
  BY <1>1 DEF Whole, OnlyRoute, OffersOK, Current
<1>3. ASSUME NEW s \in Slots PROVE SlotWhole(s, p)'
  BY <1>1, SlotUntouched DEF Whole, OfferedIn, Picked, Flies, IsAdmitted
<1> QED  BY <1>2, <1>3 DEF Whole

\* What a dispatcher's step keeps of the slots but t.
LEMMA OtherSlots ==
  ASSUME NEW p \in Pools, NEW t \in Slots, \A s \in Slots : SlotWhole(s, p),
         UNCHANGED <<publishing, offering, admitted, active>>,
         \A s \in Slots \ {t} :
           /\ claimed'[s] <=> claimed[s]
           /\ OfferedIn(s, p)' <=> OfferedIn(s, p)
           /\ ~ Picked(s, p) /\ ~ Picked(s, p)'
           /\ \A a : Flies(s, a)' <=> Flies(s, a),
         SlotWhole(t, p)'
  PROVE  \A s \in Slots : SlotWhole(s, p)'
<1> SUFFICES ASSUME NEW s \in Slots \ {t} PROVE SlotWhole(s, p)'
  OBVIOUS
<1> QED  BY SlotUntouched DEF IsAdmitted

\* The parts of OnlyRoute that a dispatcher's step may disturb.
LEMMA DispatcherOnly ==
  ASSUME NEW r, NEW p \in Pools, OnlyRoute(r, p), UNCHANGED <<dispatchFrame, generation>>,
         \A q \in Pools \ {p} : offers'[q] = offers[q] /\ dispatcher'[q] = dispatcher[q],
         OffersOK(r, p)',
         dispatcher'[p].pc # "idle" => dispatcher'[p].offer.route = r /\ Current(dispatcher'[p].offer),
         \A a \in flight' : a.route = r
  PROVE  OnlyRoute(r, p)'
<1>1. UNCHANGED <<generation, offering, admitted, control_attached, control_changed,
                  route_changed>>
  BY DEF dispatchFrame, socketVars, controlVars
<1>2. \A q \in Pools \ {p} : DOMAIN offers'[q] = {} /\ dispatcher'[q] = Idle
  BY DEF OnlyRoute
<1>3. \A o : Current(o)' <=> generation[o.slot] = o.gen
  BY <1>1 DEF Current
<1> QED  BY <1>1, <1>2, <1>3 DEF OnlyRoute, Current

\* The dispatchers of the other pools have nothing to offer.
LEMMA OtherPoolFree ==
  ASSUME TypeOK, NEW r, NEW p \in Pools, Whole(r, p), NEW q \in Pools \ {p}, DispatcherStep(q)
  PROVE  Whole(r, p)'
<1>1. DOMAIN offers[q] = {} /\ dispatcher[q] = Idle
  BY DEF Whole, OnlyRoute
<1>2. offers[q] = <<>>
  <2>1. offers[q] \in Seq(Offer)
    BY DEF TypeOK
  <2> PICK z : z = offers[q]
    OBVIOUS
  <2>2. z \in Seq(Offer) /\ 1 \notin DOMAIN z
    BY <1>1, <2>1
  <2>3. z = <<>>
    BY <2>2
  <2> QED  BY <2>3
<1>3. Sweep(q)
  BY <1>1, <1>2 DEF DispatcherStep, Pick, Claim, Recheck, Abandon, Release, Assign, Idle
<1>4. UNCHANGED <<slotVars, dispatcher, flight, socketVars, control_attached,
                  control_changed, route_changed>>
  BY <1>3 DEF Sweep, dispatchFrame, controlVars
<1>5. PICK e \in InOrder(UsableAt(q)) :
        offers' = [offers EXCEPT ![q] = [i \in DOMAIN e |-> offers[q][e[i]]]]
  BY <1>3 DEF Sweep, Retain
<1>6. DOMAIN e = {}
  <2>1. UsableAt(q) = {}
    BY <1>1 DEF UsableAt
  <2>2. Cardinality({}) = 0
    BY FS_EmptySet
  <2>3. e \in [1 .. 0 -> {}]
    BY <2>1, <2>2 DEF InOrder
  <2> QED  BY <2>3
<1>7. /\ DOMAIN offers'[q] = {}
      /\ \A k \in Pools \ {q} : offers'[k] = offers[k]
  BY <1>5, <1>6 DEF TypeOK
<1>8. OnlyRoute(r, p)'
  BY <1>4, <1>7 DEF Whole, OnlyRoute, OffersOK, Current, slotVars, socketVars
<1>9. ASSUME NEW s \in Slots PROVE SlotWhole(s, p)'
  BY <1>4, <1>7, SlotUntouched
  DEF Whole, OfferedIn, Picked, Flies, IsAdmitted, slotVars, socketVars
<1> QED  BY <1>8, <1>9 DEF Whole

LEMMA SweepFree ==
  ASSUME TypeOK, NEW r, NEW p \in Pools, Whole(r, p), alive, Sweep(p)
  PROVE  Whole(r, p)'
<1>1. /\ UNCHANGED <<dispatchFrame, slotVars, dispatcher, flight>>
      /\ Retain(p)
  BY DEF Sweep
<1>2. UNCHANGED <<generation, claimed, active, publishing, offering, admitted>>
  BY <1>1 DEF dispatchFrame, slotVars, socketVars
<1>3. OffersOK(r, p)' /\ \A s : OfferedIn(s, p)' <=> OfferedIn(s, p)
  BY <1>1, <1>2, OffersRetained DEF Whole, OnlyRoute
<1>4. \A q \in Pools \ {p} : offers'[q] = offers[q]
  BY <1>1 DEF Retain
<1>5. OnlyRoute(r, p)'
  BY <1>1, <1>2, <1>3, <1>4, DispatcherOnly DEF Whole, OnlyRoute
<1>6. ASSUME NEW s \in Slots PROVE SlotWhole(s, p)'
  BY <1>1, <1>2, <1>3, SlotUntouched DEF Whole, Picked, Flies, IsAdmitted
<1> QED  BY <1>5, <1>6 DEF Whole

LEMMA PickFree ==
  ASSUME TypeOK, NEW r, NEW p \in Pools, Whole(r, p), NEW j \in Jobs, Pick(p, j)
  PROVE  Whole(r, p)'
<1> PICK o : o = Head(offers[p])
  OBVIOUS
<1>1. /\ UNCHANGED <<dispatchFrame, slotVars, flight>>
      /\ dispatcher[p] = Idle /\ offers[p] # <<>>
      /\ offers' = [offers EXCEPT ![p] = Tail(@)]
  BY DEF Pick
<1>2. UNCHANGED <<generation, claimed, active, publishing, offering, admitted>>
  BY <1>1 DEF dispatchFrame, slotVars, socketVars
<1>3. /\ OffersOK(r, p)'
      /\ \A s : OfferedIn(s, p)' <=> OfferedIn(s, p) /\ s # o.slot
      /\ o \in Offer /\ OfferedIn(o.slot, p) /\ o.route = r /\ Current(o)
  BY <1>1, <1>2, OfferTaken DEF Whole, OnlyRoute
<1>4. dispatcher' = [dispatcher EXCEPT ![p] = [pc |-> "checked", offer |-> o, job |-> j]]
  BY <1>3 DEF Pick
<1>5. /\ dispatcher'[p] = [pc |-> "checked", offer |-> o, job |-> j]
      /\ \A q \in Pools \ {p} : offers'[q] = offers[q] /\ dispatcher'[q] = dispatcher[q]
  BY <1>1, <1>4 DEF TypeOK
<1>6. OnlyRoute(r, p)'
  <2>1. \A a \in flight' : a.route = r
    BY <1>1 DEF Whole, OnlyRoute
  <2> QED  BY <1>1, <1>2, <1>3, <1>5, <2>1, DispatcherOnly DEF Whole
<1>7. \A s : ~ Picked(s, p) /\ (Picked(s, p)' <=> s = o.slot)
  BY <1>1, <1>5 DEF Picked, Idle
<1>8. o.slot \in Slots
  BY <1>3 DEF Offer
<1>9. SlotWhole(o.slot, p)'
  <2>1. /\ SlotWhole(o.slot, p) /\ ~ Picked(o.slot, p) /\ OfferedIn(o.slot, p)
    BY <1>3, <1>7, <1>8 DEF Whole
  <2>2. /\ o.slot \notin publishing /\ offering.slot # o.slot
        /\ \A a : ~ Flies(o.slot, a)
        /\ ~ IsAdmitted(o.slot) /\ active[o.slot] = None
    BY <2>1, OneSpot
  <2>3. ~ claimed[o.slot]
    BY <2>1, <2>2 DEF SlotWhole, Flies
  <2>4. (\A a : ~ Flies(o.slot, a)') /\ ~ IsAdmitted(o.slot)'
    BY <1>1, <1>2, <2>2 DEF Flies, IsAdmitted
  <2> QED  BY <1>2, <1>3, <1>5, <1>7, <2>2, <2>3, <2>4, SlotFreed
<1>10. \A s \in Slots : SlotWhole(s, p)'
  BY <1>1, <1>2, <1>3, <1>7, <1>8, <1>9, OtherSlots DEF Whole, Flies
<1> QED  BY <1>6, <1>10 DEF Whole

\* The slot of the offer that the dispatcher holds is with it.
LEMMA PickedSlot ==
  ASSUME TypeOK, NEW r, NEW p \in Pools, Whole(r, p), dispatcher[p].pc # "idle",
         NEW o, o = dispatcher[p].offer
  PROVE  /\ o \in Offer /\ o.slot \in Slots /\ o.route = r /\ Current(o)
         /\ dispatcher[p].pc \in Points /\ dispatcher[p].job \in Jobs
         /\ \A s : Picked(s, p) <=> s = o.slot
         /\ o.slot \notin publishing /\ offering.slot # o.slot /\ ~ OfferedIn(o.slot, p)
         /\ \A a : ~ Flies(o.slot, a)
         /\ ~ IsAdmitted(o.slot) /\ active[o.slot] = None
         /\ claimed[o.slot] <=> dispatcher[p].pc # "checked"
<1>1. /\ o \in Offer /\ o.slot \in Slots /\ dispatcher[p].pc \in Points
      /\ dispatcher[p].job \in Jobs
  BY HeldByDispatcher
<1>2. o.route = r /\ Current(o)
  BY DEF Whole, OnlyRoute
<1>3. \A s : Picked(s, p) <=> s = o.slot
  BY DEF Picked
<1>4. SlotWhole(o.slot, p) /\ Picked(o.slot, p)
  BY <1>1, <1>3 DEF Whole
<1>5. /\ o.slot \notin publishing /\ offering.slot # o.slot /\ ~ OfferedIn(o.slot, p)
      /\ \A a : ~ Flies(o.slot, a)
      /\ ~ IsAdmitted(o.slot) /\ active[o.slot] = None
  BY <1>4, OneSpot
<1>6. claimed[o.slot] <=> dispatcher[p].pc # "checked"
  BY <1>4, <1>5 DEF SlotWhole, Flies
<1> QED  BY <1>1, <1>2, <1>3, <1>5, <1>6

\* The dispatcher goes on with the same offer; its flag is set once it has been swapped.
LEMMA PointFree ==
  ASSUME TypeOK, NEW r, NEW p \in Pools, Whole(r, p), dispatcher[p].pc # "idle",
         UNCHANGED <<dispatchFrame, generation, active, offers, flight>>,
         NEW v \in Points \ {"checked"}, dispatcher' = [dispatcher EXCEPT ![p].pc = v],
         \/ claimed' = [claimed EXCEPT ![dispatcher[p].offer.slot] = TRUE]
         \/ claimed' = claimed /\ dispatcher[p].pc # "checked"
  PROVE  Whole(r, p)'
<1> PICK o : o = dispatcher[p].offer
  OBVIOUS
<1>1. /\ o \in Offer /\ o.slot \in Slots /\ o.route = r /\ Current(o)
      /\ \A s : Picked(s, p) <=> s = o.slot
      /\ o.slot \notin publishing /\ offering.slot # o.slot /\ ~ OfferedIn(o.slot, p)
      /\ \A a : ~ Flies(o.slot, a)
      /\ ~ IsAdmitted(o.slot) /\ active[o.slot] = None
      /\ claimed[o.slot] <=> dispatcher[p].pc # "checked"
  BY PickedSlot
<1>2. UNCHANGED <<generation, active, publishing, offering, admitted>>
  BY DEF dispatchFrame, socketVars
<1>3. /\ dispatcher'[p] = [dispatcher[p] EXCEPT !.pc = v]
      /\ \A q \in Pools \ {p} : dispatcher'[q] = dispatcher[q]
  BY DEF TypeOK
<1>4. dispatcher'[p].pc = v /\ dispatcher'[p].offer = o /\ v # "idle"
  <2>1. [dispatcher[p] EXCEPT !.pc = v] =
          [pc |-> v, offer |-> dispatcher[p].offer, job |-> dispatcher[p].job]
    BY HeldByDispatcher
  <2> QED  BY <1>3, <2>1 DEF Points
<1>5. OnlyRoute(r, p)'
  <2>1. OffersOK(r, p)' /\ \A a \in flight' : a.route = r
    BY <1>2 DEF Whole, OnlyRoute, OffersOK, Current
  <2> QED  BY <1>1, <1>2, <1>3, <1>4, <2>1, DispatcherOnly DEF Whole
<1>6. /\ \A s \in Slots \ {o.slot} : claimed'[s] <=> claimed[s]
      /\ claimed'[o.slot]
  BY <1>1 DEF TypeOK
<1>7. \A s : Picked(s, p)' <=> s = o.slot
  BY <1>4 DEF Picked
<1>8. SlotWhole(o.slot, p)'
  BY <1>1, <1>2, <1>4, <1>6, <1>7, SlotTaken DEF OfferedIn, Flies, IsAdmitted
<1>9. \A s \in Slots : SlotWhole(s, p)'
  BY <1>1, <1>2, <1>6, <1>7, <1>8, OtherSlots DEF Whole, OfferedIn, Flies
<1> QED  BY <1>5, <1>9 DEF Whole

\* A claim succeeds, and its offer is still current: nobody else resets its slot.
LEMMA ClaimFree ==
  ASSUME TypeOK, NEW r, NEW p \in Pools, Whole(r, p), Claim(p) \/ Recheck(p)
  PROVE  Whole(r, p)'
<1> PICK o : o = dispatcher[p].offer
  OBVIOUS
<1>1. dispatcher[p].pc \in {"checked", "swapped"}
  BY DEF Claim, Recheck
<1>2. Current(o) /\ (claimed[o.slot] <=> dispatcher[p].pc # "checked")
  BY <1>1, PickedSlot
<1>3. CASE Claim(p)
  <2>1. /\ claimed' = [claimed EXCEPT ![o.slot] = TRUE]
        /\ dispatcher' = [dispatcher EXCEPT ![p].pc = "swapped"]
        /\ UNCHANGED <<dispatchFrame, generation, active, offers, flight>>
    BY <1>2, <1>3 DEF Claim
  <2> QED  BY <1>1, <2>1, PointFree DEF Points
<1>4. CASE Recheck(p)
  <2>1. /\ dispatcher' = [dispatcher EXCEPT ![p].pc = "owned"]
        /\ UNCHANGED <<dispatchFrame, slotVars, offers, flight>>
        /\ dispatcher[p].pc = "swapped"
    BY <1>2, <1>4 DEF Recheck
  <2> QED  BY <2>1, PointFree DEF Points, slotVars
<1> QED  BY <1>3, <1>4

LEMMA AbandonFree ==
  ASSUME TypeOK, NEW r, NEW p \in Pools, Whole(r, p), Abandon(p)
  PROVE  Whole(r, p)'
<1> PICK o : o = dispatcher[p].offer
  OBVIOUS
<1>1. dispatcher[p].pc = "owned"
  BY DEF Abandon
<1>2. Current(o)
  BY <1>1, PickedSlot
<1>3. /\ dispatcher' = [dispatcher EXCEPT ![p].pc = "releasing"]
      /\ UNCHANGED <<dispatchFrame, slotVars, offers, flight>>
  BY <1>2 DEF Abandon
<1> QED  BY <1>1, <1>3, PointFree DEF Points, slotVars

\* The slot is offered again.
LEMMA ReleaseFree ==
  ASSUME TypeOK, NEW r, NEW p \in Pools, Whole(r, p), Release(p)
  PROVE  Whole(r, p)'
<1> PICK o : o = dispatcher[p].offer
  OBVIOUS
<1>1. /\ dispatcher[p].pc = "releasing"
      /\ claimed' = [claimed EXCEPT ![o.slot] = FALSE]
      /\ dispatcher' = [dispatcher EXCEPT ![p] = Idle]
      /\ offers' = [offers EXCEPT ![p] = <<o>> \o @]
      /\ UNCHANGED <<dispatchFrame, generation, active, flight>>
  BY DEF Release
<1>2. /\ o \in Offer /\ o.slot \in Slots /\ o.route = r /\ Current(o)
      /\ \A s : Picked(s, p) <=> s = o.slot
      /\ o.slot \notin publishing /\ offering.slot # o.slot /\ ~ OfferedIn(o.slot, p)
      /\ \A a : ~ Flies(o.slot, a)
      /\ ~ IsAdmitted(o.slot) /\ active[o.slot] = None
  BY <1>1, PickedSlot
<1>3. UNCHANGED <<generation, active, publishing, offering, admitted>>
  BY <1>1 DEF dispatchFrame, socketVars
<1>4. /\ OffersOK(r, p)'
      /\ \A s : OfferedIn(s, p)' <=> OfferedIn(s, p) \/ s = o.slot
  BY <1>1, <1>2, OfferAdded DEF Whole, OnlyRoute
<1>5. /\ dispatcher'[p] = Idle
      /\ \A q \in Pools \ {p} : offers'[q] = offers[q] /\ dispatcher'[q] = dispatcher[q]
  BY <1>1 DEF TypeOK
<1>6. OnlyRoute(r, p)'
  <2>1. \A a \in flight' : a.route = r
    BY <1>1 DEF Whole, OnlyRoute
  <2> QED  BY <1>1, <1>3, <1>4, <1>5, <2>1, DispatcherOnly DEF Whole, Idle
<1>7. \A s : ~ Picked(s, p)'
  BY <1>5 DEF Picked, Idle
<1>8. /\ \A s \in Slots \ {o.slot} : claimed'[s] <=> claimed[s]
      /\ ~ claimed'[o.slot]
  BY <1>1, <1>2 DEF TypeOK
<1>9. SlotWhole(o.slot, p)'
  BY <1>1, <1>2, <1>3, <1>4, <1>7, <1>8, SlotFreed DEF Flies, IsAdmitted
<1>10. \A s \in Slots : SlotWhole(s, p)'
  BY <1>1, <1>2, <1>3, <1>4, <1>7, <1>8, <1>9, OtherSlots DEF Whole, Flies
<1> QED  BY <1>6, <1>10 DEF Whole

\* The slot is on its way with the assignment.
LEMMA AssignFree ==
  ASSUME TypeOK, NEW r, NEW p \in Pools, Whole(r, p), alive, Assign(p)
  PROVE  Whole(r, p)'
<1> PICK o, b : /\ o = dispatcher[p].offer
                /\ b = [slot |-> o.slot, route |-> o.route, gen |-> o.gen,
                        job |-> dispatcher[p].job]
  OBVIOUS
<1>1. /\ dispatcher[p].pc = "owned"
      /\ flight' = flight \cup {b}
      /\ dispatcher' = [dispatcher EXCEPT ![p] = Idle]
      /\ UNCHANGED <<dispatchFrame, slotVars, offers>>
  BY DEF Assign
<1>2. /\ o \in Offer /\ o.slot \in Slots /\ o.route = r
      /\ \A s : Picked(s, p) <=> s = o.slot
      /\ o.slot \notin publishing /\ offering.slot # o.slot /\ ~ OfferedIn(o.slot, p)
      /\ \A a : ~ Flies(o.slot, a)
      /\ ~ IsAdmitted(o.slot) /\ active[o.slot] = None
      /\ claimed[o.slot]
  BY <1>1, PickedSlot
<1>3. UNCHANGED <<generation, claimed, active, publishing, offering, admitted>>
  BY <1>1 DEF dispatchFrame, socketVars, slotVars
<1>4. /\ dispatcher'[p] = Idle
      /\ \A q \in Pools \ {p} : offers'[q] = offers[q] /\ dispatcher'[q] = dispatcher[q]
  BY <1>1 DEF TypeOK
<1>5. OnlyRoute(r, p)'
  <2>1. \A a \in flight' : a.route = r
    BY <1>1, <1>2 DEF Whole, OnlyRoute
  <2>2. OffersOK(r, p)'
    BY <1>1, <1>3 DEF Whole, OnlyRoute, OffersOK, Current
  <2> QED  BY <1>1, <1>3, <1>4, <2>1, <2>2, DispatcherOnly DEF Whole, Idle
<1>6. \A s : ~ Picked(s, p)'
  BY <1>4 DEF Picked, Idle
<1>7. /\ \A a : Flies(o.slot, a)' <=> a = b
      /\ \A s \in Slots \ {o.slot} : \A a : Flies(s, a)' <=> Flies(s, a)
  BY <1>1, <1>2 DEF Flies
<1>8. SlotWhole(o.slot, p)'
  <2>1. ~ OfferedIn(o.slot, p)' /\ ~ IsAdmitted(o.slot)'
    BY <1>1, <1>2, <1>3 DEF OfferedIn, IsAdmitted
  <2>2. \E a : \A c : Flies(o.slot, c)' <=> c = a
    BY <1>7
  <2> QED  BY <1>2, <1>3, <1>6, <2>1, <2>2, SlotTaken
<1>9. \A s \in Slots : SlotWhole(s, p)'
  BY <1>1, <1>2, <1>3, <1>6, <1>7, <1>8, OtherSlots DEF Whole, OfferedIn
<1> QED  BY <1>5, <1>9 DEF Whole

-----------------------------------------------------------------------------
(* A single route: the steps of the socket task                            *)

\* The next slot is published to the only route.
LEMMA PublishSlotFree ==
  ASSUME SlotsAssumption, TypeOK, NEW r \in RouteIds, NEW p \in Pools, Single(r), Whole(r, p),
         PublishSlot
  PROVE  Whole(r, p)'
<1>1. Live = {r}
  BY DEF Live, Single
<1>2. PICK t \in publishing :
        /\ publishing' = publishing \ {t}
        /\ offering = NotOffering /\ offering' = [slot |-> t, routes |-> {r}]
        /\ UNCHANGED <<socketFrame, slotVars, offers, flight, admitted, control_changed,
                       route_changed>>
  BY <1>1 DEF PublishSlot, Whole, OnlyRoute
<1>3. UNCHANGED <<generation, claimed, active, dispatcher, control_attached>>
  BY <1>2 DEF slotVars, socketFrame
<1>4. t \in Slots /\ offering.slot = None /\ None \notin Slots /\ offering'.slot = t
  BY <1>2 DEF TypeOK, NotOffering, SlotsAssumption
<1>5. OnlyRoute(r, p)'
  BY <1>2, <1>3 DEF Whole, OnlyRoute, OffersOK, Current
<1>6. SlotWhole(t, p)'
  <2>1. /\ SlotWhole(t, p) /\ ~ OfferedIn(t, p) /\ ~ Picked(t, p)
        /\ \A a : ~ Flies(t, a)
        /\ ~ IsAdmitted(t) /\ active[t] = None
    BY <1>2, <1>4, OneSpot DEF Whole
  <2>2. ~ claimed[t]
    BY <2>1 DEF SlotWhole, Flies
  <2>3. /\ ~ OfferedIn(t, p)' /\ ~ Picked(t, p)' /\ ~ IsAdmitted(t)'
        /\ \A a : ~ Flies(t, a)'
    BY <1>2, <1>3, <2>1 DEF OfferedIn, Picked, Flies, IsAdmitted
  <2> QED  BY <1>2, <1>3, <1>4, <2>1, <2>2, <2>3, SlotFreed
<1>7. ASSUME NEW s \in Slots, s # t PROVE SlotWhole(s, p)'
  BY <1>2, <1>3, <1>4, <1>7, SlotUntouched DEF Whole, OfferedIn, Picked, Flies, IsAdmitted
<1> QED  BY <1>5, <1>6, <1>7 DEF Whole

\* A free slot is offered, and to nobody twice.
LEMMA PublishOfferFree ==
  ASSUME SlotsAssumption, TypeOK, NEW r, NEW p \in Pools, p = RoutePool[r], r \in RouteIds,
         Whole(r, p), PublishOffer
  PROVE  Whole(r, p)'
<1> PICK t, o : /\ t = offering.slot
                /\ o = [slot |-> t, route |-> r, gen |-> generation[t]]
  OBVIOUS
<1>1. /\ offering # NotOffering /\ offering.routes = {r}
      /\ UNCHANGED <<socketFrame, slotVars, flight, publishing, admitted, control_changed,
                     route_changed>>
  BY DEF PublishOffer, Whole, OnlyRoute
<1>2. UNCHANGED <<generation, claimed, active, dispatcher, control_attached>>
  BY <1>1 DEF slotVars, socketFrame
<1>3. t \in Slots /\ None \notin Slots
  BY <1>1 DEF TypeOK, SlotsAssumption
<1>4. /\ SlotWhole(t, p) /\ t \notin publishing /\ ~ OfferedIn(t, p) /\ ~ Picked(t, p)
      /\ \A a : ~ Flies(t, a)
      /\ ~ IsAdmitted(t) /\ active[t] = None
  BY <1>3, OneSpot DEF Whole
<1>5. ~ claimed[t]
  BY <1>4 DEF SlotWhole, Flies
<1>6. offers' = [offers EXCEPT ![p] = Append(@, o)] /\ offering' = NotOffering
  BY <1>1, <1>4, <1>5 DEF PublishOffer
<1>7. o \in Offer /\ o.slot = t /\ o.route = r /\ Current(o)
  BY <1>3 DEF TypeOK, Offer, Current
<1>8. /\ OffersOK(r, p)'
      /\ \A s : OfferedIn(s, p)' <=> OfferedIn(s, p) \/ s = t
  <2>1. OffersOK(r, p) /\ ~ OfferedIn(o.slot, p)
    BY <1>4, <1>7 DEF Whole, OnlyRoute
  <2>2. /\ OffersOK(r, p)'
        /\ \A s : OfferedIn(s, p)' <=> OfferedIn(s, p) \/ s = o.slot
    BY <1>2, <1>6, <1>7, <2>1, OfferAdded
  <2> QED  BY <1>7, <2>2
<1>9. OnlyRoute(r, p)'
  <2>1. \A q \in Pools \ {p} : offers'[q] = offers[q]
    BY <1>6 DEF TypeOK
  <2>2. \A x : Current(x)' <=> Current(x)
    BY <1>2 DEF Current
  <2> QED  BY <1>1, <1>2, <1>6, <1>8, <2>1, <2>2 DEF Whole, OnlyRoute
<1>10. offering'.slot = None
  BY <1>6 DEF NotOffering
<1>11. SlotWhole(t, p)'
  <2>1. /\ ~ Picked(t, p)' /\ ~ IsAdmitted(t)'
        /\ \A a : ~ Flies(t, a)'
    BY <1>1, <1>2, <1>4 DEF Picked, Flies, IsAdmitted
  <2> QED  BY <1>1, <1>2, <1>3, <1>4, <1>5, <1>8, <1>10, <2>1, SlotFreed
<1>12. ASSUME NEW s \in Slots, s # t PROVE SlotWhole(s, p)'
  BY <1>1, <1>2, <1>3, <1>8, <1>10, <1>12, SlotUntouched DEF Whole, Picked, Flies, IsAdmitted
<1> QED  BY <1>9, <1>11, <1>12 DEF Whole

\* The assignment finds its slot without a stream.
LEMMA ReceiveFree ==
  ASSUME SlotsAssumption, TypeOK, NEW r, NEW p \in Pools, Whole(r, p), NEW a \in flight, Receive(a)
  PROVE  Whole(r, p)'
<1>1. a \in Assignment /\ a.slot \in Slots /\ None \notin Assignment /\ a.route = r
  BY DEF TypeOK, Assignment, SlotsAssumption, Whole, OnlyRoute
<1>2. SlotWhole(a.slot, p) /\ Flies(a.slot, a)
  BY <1>1 DEF Whole, Flies
<1>3. /\ a.slot \notin publishing /\ offering.slot # a.slot /\ ~ OfferedIn(a.slot, p)
      /\ ~ Picked(a.slot, p) /\ active[a.slot] = None
      /\ \A b : Flies(a.slot, b) => b = a
  BY <1>2, OneSpotTaken
<1>4. claimed[a.slot]
  BY <1>2 DEF SlotWhole, Flies
<1>5. control_attached
  BY DEF Whole, OnlyRoute
<1>6. /\ Selecting /\ flight' = flight \ {a} /\ admitted' = a
      /\ UNCHANGED <<socketFrame, slotVars, offers, publishing, offering, control_changed,
                     route_changed>>
  BY <1>3, <1>5 DEF Receive
<1>7. /\ UNCHANGED <<generation, claimed, active, dispatcher, control_attached>>
      /\ admitted = None
  BY <1>6 DEF slotVars, socketFrame, Selecting
<1>8. OnlyRoute(r, p)'
  BY <1>1, <1>6, <1>7 DEF Whole, OnlyRoute, OffersOK, Current
<1>9. SlotWhole(a.slot, p)'
  <2>1. (\A b : ~ Flies(a.slot, b)') /\ IsAdmitted(a.slot)'
    BY <1>1, <1>3, <1>6 DEF Flies, IsAdmitted
  <2>2. ~ OfferedIn(a.slot, p)' /\ ~ Picked(a.slot, p)'
    BY <1>3, <1>6, <1>7 DEF OfferedIn, Picked
  <2> QED  BY <1>3, <1>4, <1>6, <1>7, <2>1, <2>2, SlotTaken
<1>10. ASSUME NEW s \in Slots, s # a.slot PROVE SlotWhole(s, p)'
  <2>1. /\ \A b : Flies(s, b)' <=> Flies(s, b)
        /\ IsAdmitted(s)' <=> IsAdmitted(s)
    BY <1>6, <1>7, <1>10 DEF Flies, IsAdmitted
  <2> QED  BY <1>6, <1>7, <2>1, SlotUntouched DEF Whole, OfferedIn, Picked
<1> QED  BY <1>8, <1>9, <1>10 DEF Whole

LEMMA StartFree ==
  ASSUME SlotsAssumption, TypeOK, NEW r, NEW p \in Pools, Whole(r, p), StartStream
  PROVE  Whole(r, p)'
<1> PICK t : t = admitted.slot
  OBVIOUS
<1>1. /\ admitted # None /\ admitted' = None
      /\ active' = [active EXCEPT ![t] = admitted.job]
      /\ UNCHANGED <<socketFrame, generation, claimed, offers, flight, publishing, offering,
                     control_changed, route_changed>>
  BY DEF StartStream
<1>2. t \in Slots /\ admitted.job \in Jobs /\ None \notin Jobs
  BY <1>1 DEF TypeOK, Assignment, SlotsAssumption
<1>3. SlotWhole(t, p) /\ IsAdmitted(t)
  BY <1>1, <1>2 DEF Whole, IsAdmitted
<1>4. /\ t \notin publishing /\ offering.slot # t /\ ~ OfferedIn(t, p) /\ ~ Picked(t, p)
      /\ \A a : ~ Flies(t, a)
      /\ claimed[t]
  BY <1>3, OneSpotTaken DEF SlotWhole
<1>5. UNCHANGED <<dispatcher, control_attached>>
  BY <1>1 DEF socketFrame
<1>6. OnlyRoute(r, p)'
  BY <1>1, <1>5 DEF Whole, OnlyRoute, OffersOK, Current
<1>7. active'[t] # None /\ \A s \in Slots \ {t} : active'[s] = active[s]
  BY <1>1, <1>2 DEF TypeOK
<1>8. \A s : ~ IsAdmitted(s)'
  BY <1>1 DEF IsAdmitted
<1>9. SlotWhole(t, p)'
  <2>1. /\ ~ OfferedIn(t, p)' /\ ~ Picked(t, p)'
        /\ \A a : ~ Flies(t, a)'
    BY <1>1, <1>4, <1>5 DEF OfferedIn, Picked, Flies
  <2> QED  BY <1>1, <1>4, <1>7, <1>8, <2>1, SlotTaken
<1>10. ASSUME NEW s \in Slots, s # t PROVE SlotWhole(s, p)'
  <2>1. ~ IsAdmitted(s)
    BY <1>10 DEF IsAdmitted
  <2> QED  BY <1>1, <1>5, <1>7, <1>8, <1>10, <2>1, SlotUntouched DEF Whole, OfferedIn, Picked, Flies
<1> QED  BY <1>6, <1>9, <1>10 DEF Whole

\* The slot is taken back and is about to be published: no offer of it is left.
LEMMA EndFree ==
  ASSUME SlotsAssumption, TypeOK, NEW r, NEW p \in Pools, Whole(r, p), NEW t \in Slots, EndStream(t)
  PROVE  Whole(r, p)'
<1>1. /\ Selecting /\ active[t] # None /\ Reset(t) /\ publishing' = {t}
      /\ UNCHANGED <<socketFrame, offers, flight, offering, admitted, control_changed,
                     route_changed>>
  BY DEF EndStream
<1>2. /\ SlotWhole(t, p) /\ offering.slot # t /\ ~ OfferedIn(t, p) /\ ~ Picked(t, p)
      /\ \A a : ~ Flies(t, a)
      /\ ~ IsAdmitted(t)
  BY <1>1, OneSpotTaken DEF Whole
<1>3. UNCHANGED <<dispatcher, control_attached>> /\ publishing = {}
  BY <1>1 DEF socketFrame, Selecting
<1>4. /\ ~ claimed'[t] /\ active'[t] = None
      /\ \A s \in Slots \ {t} : /\ claimed'[s] = claimed[s] /\ active'[s] = active[s]
                                /\ generation'[s] = generation[s]
  BY <1>1 DEF Reset, TypeOK
<1>5. OnlyRoute(r, p)'
  <2>1. \A i \in DOMAIN offers[p] : offers[p][i].slot # t /\ offers[p][i].slot \in Slots
    <3>1. offers[p] \in Seq(Offer)
      BY DEF TypeOK
    <3>2. \A i \in DOMAIN offers[p] : offers[p][i] \in Offer
      BY <3>1
    <3> QED  BY <1>2, <3>2 DEF OfferedIn, Offer
  <2>2. OffersOK(r, p)'
    BY <1>1, <1>4, <2>1 DEF Whole, OnlyRoute, OffersOK, Current
  <2>3. dispatcher[p].pc # "idle" => /\ dispatcher[p].offer.route = r
                                     /\ generation'[dispatcher[p].offer.slot] = dispatcher[p].offer.gen
    <3> SUFFICES ASSUME dispatcher[p].pc # "idle"
                 PROVE  /\ dispatcher[p].offer.route = r
                        /\ generation'[dispatcher[p].offer.slot] = dispatcher[p].offer.gen
      OBVIOUS
    <3>1. dispatcher[p].offer.slot \in Slots \ {t}
      BY <1>2, HeldByDispatcher DEF Picked
    <3> QED  BY <1>4, <3>1 DEF Whole, OnlyRoute, Current
  <2> QED  BY <1>1, <1>3, <2>2, <2>3 DEF Whole, OnlyRoute, Current
<1>6. SlotWhole(t, p)'
  <2>1. /\ ~ OfferedIn(t, p)' /\ ~ Picked(t, p)' /\ ~ IsAdmitted(t)'
        /\ \A a : ~ Flies(t, a)'
    BY <1>1, <1>2, <1>3 DEF OfferedIn, Picked, Flies, IsAdmitted
  <2> QED  BY <1>1, <1>2, <1>4, <2>1, SlotFreed
<1>7. ASSUME NEW s \in Slots, s # t PROVE SlotWhole(s, p)'
  BY <1>1, <1>3, <1>4, <1>7, SlotUntouched DEF Whole, OfferedIn, Picked, Flies, IsAdmitted
<1> QED  BY <1>5, <1>6, <1>7 DEF Whole

-----------------------------------------------------------------------------
(* A single route: the theorem                                             *)

\* A route that was there when the data socket opened has been live since, or is gone; and
\* as long as it is the only one, the capacity of every slot is accounted for.
FreeInv ==
  /\ \A r \in RegisteredFirst : route[r] \in {"live", "gone"}
  /\ \A r \in RouteIds : Single(r) => Whole(r, RoutePool[r])

LEMMA RoutesOnly ==
  ASSUME [Next]_vars
  PROVE  \/ route' = route
         \/ \E r \in RouteIds : RegisterRoute(r) \/ UnregisterRoute(r)
<1>1. CASE \E j \in Jobs : Enqueue(j) \/ GiveUp(j)
  BY <1>1 DEF Enqueue, GiveUp, jobFrame, controlVars
<1>2. CASE \E p \in Pools : DispatcherStep(p)
  BY <1>2
  DEF DispatcherStep, Sweep, Pick, Claim, Recheck, Abandon, Release, Assign, dispatchFrame,
      controlVars
<1>3. CASE SocketStep \/ \E s \in Slots : EndStream(s)
  BY <1>3
  DEF SocketStep, PublishSlot, PublishOffer, ControlChanged, RouteChanged, Receive, RejectRoute,
      StartStream, EndStream, socketFrame
<1>4. CASE SocketLost \/ SendFailed
  BY <1>4 DEF SocketLost, SendFailed, Lose, socketFrame
<1>5. CASE ControlStep
  BY <1>5 DEF ControlStep, DetachControl, AttachControl
<1>6. CASE UNCHANGED vars
  BY <1>6 DEF vars, controlVars
<1> QED  BY <1>1, <1>2, <1>3, <1>4, <1>5, <1>6 DEF Next

\* A route goes from new to live and from live to gone.
LEMMA RoutesMonotone ==
  ASSUME TypeOK, [Next]_vars
  PROVE  \A q \in RouteIds : /\ route'[q] = "new" => route[q] = "new"
                             /\ route[q] = "gone" => route'[q] = "gone"
                             /\ route[q] = "live" => route'[q] \in {"live", "gone"}
<1>1. CASE route' = route
  BY <1>1
<1>2. CASE \E r \in RouteIds : RegisterRoute(r) \/ UnregisterRoute(r)
  BY <1>2 DEF TypeOK, RegisterRoute, UnregisterRoute
<1> QED  BY <1>1, <1>2, RoutesOnly

LEMMA SingleBefore ==
  ASSUME SlotsAssumption, TypeOK, FreeInv, [Next]_vars, NEW r \in RouteIds, Single(r)'
  PROVE  Single(r)
<1>1. alive /\ detaches = 0
  BY StepMonotone DEF TypeOK, Single
<1>2. r \in RegisteredFirst /\ route'[r] = "live" /\ \A q \in RouteIds \ {r} : route'[q] = "new"
  BY DEF Single
<1>3. route[r] = "live"
  <2>1. route[r] \in {"live", "gone"}
    BY <1>2 DEF FreeInv
  <2> QED  BY <1>2, <2>1, RoutesMonotone
<1>4. \A q \in RouteIds \ {r} : route[q] = "new"
  BY <1>2, RoutesMonotone
<1> QED  BY <1>1, <1>2, <1>3, <1>4 DEF Single

\* The invariant of the slots, for a step that leaves the route alone in the session.
LEMMA StepFree ==
  ASSUME SlotsAssumption, TypeOK, NEW r \in RouteIds, NEW p \in Pools, p = RoutePool[r],
         Single(r), Single(r)', Whole(r, p), [Next]_vars
  PROVE  Whole(r, p)'
<1>1. /\ alive /\ alive' /\ detaches = 0 /\ detaches' = 0
      /\ route[r] = "live" /\ route'[r] = "live"
      /\ \A q \in RouteIds \ {r} : route[q] = "new" /\ route'[q] = "new"
  BY DEF Single
<1>2. control_attached /\ ~ control_changed /\ ~ route_changed
  BY DEF Whole, OnlyRoute
<1>3. CASE \E j \in Jobs : Enqueue(j) \/ GiveUp(j)
  <2>1. UNCHANGED <<jobFrame>>
    BY <1>3 DEF Enqueue, GiveUp
  <2> QED  BY <2>1, QuietFree DEF jobFrame, controlVars
<1>4. CASE \E q \in Pools : DispatcherStep(q)
  <2> PICK q \in Pools : DispatcherStep(q)
    BY <1>4
  <2>1. CASE q # p
    BY <2>1, OtherPoolFree
  <2>2. CASE q = p
    BY <1>1, <2>2, SweepFree, PickFree, ClaimFree, AbandonFree, ReleaseFree, AssignFree
    DEF DispatcherStep
  <2> QED  BY <2>1, <2>2
<1>5. CASE SocketStep
  <2>1. ~ ControlChanged /\ ~ RouteChanged
    BY <1>2 DEF ControlChanged, RouteChanged
  <2>2. ~ RejectRoute
    BY <1>1 DEF RejectRoute, Whole, OnlyRoute
  <2> QED
    BY <1>5, <2>1, <2>2, PublishSlotFree, PublishOfferFree, ReceiveFree, StartFree DEF SocketStep
<1>6. CASE \E s \in Slots : EndStream(s)
  BY <1>6, EndFree
<1>7. ~ SocketLost /\ ~ SendFailed
  BY <1>1 DEF SocketLost, SendFailed, Lose
<1>8. ~ ControlStep
  <2>1. ~ DetachControl /\ ~ AttachControl
    BY <1>1, <1>2 DEF DetachControl, AttachControl
  <2>2. ASSUME NEW q \in RouteIds PROVE ~ RegisterRoute(q) /\ ~ UnregisterRoute(q)
    BY <1>1 DEF RegisterRoute, UnregisterRoute, TypeOK
  <2> QED  BY <2>1, <2>2 DEF ControlStep
<1>9. CASE UNCHANGED vars
  BY <1>9, QuietFree DEF vars, controlVars
<1> QED  BY <1>3, <1>4, <1>5, <1>6, <1>7, <1>8, <1>9 DEF Next

LEMMA InitFree ==
  ASSUME SlotsAssumption, Init, NEW r \in RouteIds, NEW p \in Pools, Single(r)
  PROVE  Whole(r, p)
<1>1. OnlyRoute(r, p)
  BY DEF Init, OnlyRoute, OffersOK, Idle
<1>2. ASSUME NEW s \in Slots PROVE SlotWhole(s, p)
  <2>1. /\ s \in publishing /\ offering.slot # s /\ ~ OfferedIn(s, p) /\ ~ Picked(s, p)
        /\ \A a : ~ Flies(s, a)
        /\ ~ IsAdmitted(s) /\ active[s] = None /\ ~ claimed[s]
    BY DEF Init, NotOffering, Idle, SlotsAssumption, OfferedIn, Picked, Flies, IsAdmitted
  <2>2. \A x : x \in Spots(s, p) <=> x = <<"publishing", s>>
    BY <2>1, SpotKinds DEF Flies
  <2>3. Spots(s, p) = {<<"publishing", s>>}
    BY <2>2
  <2> QED  BY <2>1, <2>3 DEF SlotWhole, Flies
<1> QED  BY <1>1, <1>2 DEF Whole

LEMMA FreeInvHolds == Spec => [](TypeInv /\ FreeInv)
<1> USE SlotsAssumption
<1>1. Init => FreeInv
  <2> SUFFICES ASSUME Init PROVE FreeInv
    OBVIOUS
  <2>1. \A r \in RegisteredFirst : route[r] \in {"live", "gone"}
    BY DEF Init, SlotsAssumption
  <2>2. \A r \in RouteIds : RoutePool[r] \in Pools
    BY DEF SlotsAssumption
  <2> QED  BY <2>1, <2>2, InitFree DEF FreeInv
<1>2. TypeInv /\ FreeInv /\ [Next]_vars => FreeInv'
  <2> SUFFICES ASSUME TypeInv, FreeInv, [Next]_vars PROVE FreeInv'
    OBVIOUS
  <2>1. TypeOK
    BY DEF TypeInv
  <2>2. \A r \in RegisteredFirst : route'[r] \in {"live", "gone"}
    BY <2>1, RoutesMonotone DEF FreeInv, SlotsAssumption
  <2>3. ASSUME NEW r \in RouteIds, Single(r)' PROVE Whole(r, RoutePool[r])'
    <3>1. Single(r) /\ RoutePool[r] \in Pools
      BY <2>1, <2>3, SingleBefore DEF SlotsAssumption
    <3>2. Whole(r, RoutePool[r])
      BY <3>1 DEF FreeInv
    <3> QED  BY <2>1, <2>3, <3>1, <3>2, StepFree
  <2> QED  BY <2>2, <2>3 DEF FreeInv
<1> QED  BY <1>1, <1>2, TypeInvHolds, PTL DEF Spec

\* For any number of slots, pools, routes and jobs: with a single route, no capacity is
\* lost.  A slot that nobody holds and nobody is about to publish is offered to the
\* route's dispatcher, with its present generation (reset_multiplex_slot,
\* publish_split_slot).
THEOREM CapacityIsOffered == Spec => []FreeSlotOffered
<1>1. TypeInv /\ FreeInv => FreeSlotOffered
  <2> SUFFICES ASSUME TypeInv, FreeInv, NEW s \in Slots, NEW r \in RouteIds,
                      alive, SingleRoute, route[r] = "live", ~ Attended(s)
               PROVE  Offered(s, RoutePool[r])
    BY DEF FreeSlotOffered
  <2> PICK p : p = RoutePool[r]
    OBVIOUS
  <2>1. Single(r)
    BY DEF SingleRoute, Single
  <2>2. Whole(r, p) /\ p \in Pools
    BY <2>1, SlotsAssumption DEF FreeInv, SlotsAssumption
  <2>3. s \notin publishing /\ offering.slot # s /\ ~ Picked(s, p)
    BY <2>2 DEF Attended, Picked, Idle
  <2>4. /\ \A a \in flight : a.slot # s
        /\ ~ IsAdmitted(s) /\ active[s] = None
    BY DEF Attended, Holders, IsAdmitted, ActiveSlots
  <2>5. PICK x : x \in Spots(s, p)
    BY <2>2 DEF Whole, SlotWhole
  <2>6. OfferedIn(s, p)
    BY <2>3, <2>4, <2>5, SpotKinds DEF Flies
  <2> QED  BY <2>2, <2>6 DEF Whole, OnlyRoute, OffersOK, OfferedIn, Offered
<1> QED  BY <1>1, FreeInvHolds, PTL

-----------------------------------------------------------------------------
(* Refinement of JobDelivery                                               *)

\* Who waits and who was handed over, by place.
LEMMA DeliveryIs ==
  ASSUME SlotsAssumption, TypeInv
  PROVE  /\ WaitingJobs \subseteq Jobs /\ HandedJobs \subseteq Jobs
         /\ \A j \in Jobs : j \in WaitingJobs <=> \E p \in Pools : Queued(j, p) \/ HeldBy(j, p)
         /\ \A j \in Jobs : j \in HandedJobs <=> Waits(j) \/ \E a \in flight : OnTheWay(j, a)
<1>1. None \notin Jobs /\ \A p \in Pools : queue[p] \subseteq Jobs
  BY DEF SlotsAssumption, TypeInv, TypeOK
<1>2. \A p \in Pools : dispatcher[p].job \in Jobs \cup {None}
  BY DEF TypeInv, TypeOK, DispatcherState, Idle
<1>3. \A a \in flight \cup ({admitted} \ {None}) : a.job \in Jobs
  BY DEF TypeInv, TypeOK, Assignment
<1> DEFINE Q == UNION {queue[p] : p \in Pools}
           D == {dispatcher[p].job : p \in Pools}
<1>a. \A j : j \in Q <=> \E p \in Pools : j \in queue[p]
  OBVIOUS
<1>b. \A j : j \in D <=> \E p \in Pools : dispatcher[p].job = j
  OBVIOUS
<1>d. WaitingJobs = Q \cup (D \ {None})
  BY DEF WaitingJobs
<1> HIDE DEF Q, D
<1>c. \A j : j \in WaitingJobs <=> \/ \E p \in Pools : j \in queue[p]
                                   \/ j # None /\ \E p \in Pools : dispatcher[p].job = j
  BY <1>a, <1>b, <1>d
<1>4. WaitingJobs \subseteq Jobs
  BY <1>1, <1>2, <1>c
<1>5. HandedJobs \subseteq Jobs
  BY <1>3 DEF HandedJobs
<1>6. ASSUME NEW j \in Jobs
      PROVE  j \in WaitingJobs <=> \E p \in Pools : Queued(j, p) \/ HeldBy(j, p)
  BY <1>1, <1>6, <1>c DEF Queued, HeldBy
<1>7. ASSUME NEW j \in Jobs
      PROVE  j \in HandedJobs <=> Waits(j) \/ \E a \in flight : OnTheWay(j, a)
  BY <1>7 DEF HandedJobs, Waits, OnTheWay
<1> QED  BY <1>4, <1>5, <1>6, <1>7

LEMMA DeliveryIsNext ==
  ASSUME SlotsAssumption, TypeInv'
  PROVE  /\ WaitingJobs' \subseteq Jobs /\ HandedJobs' \subseteq Jobs
         /\ \A j \in Jobs : j \in WaitingJobs' <=> \E p \in Pools : Queued(j, p)' \/ HeldBy(j, p)'
         /\ \A j \in Jobs : j \in HandedJobs' <=> Waits(j)' \/ \E a \in flight' : OnTheWay(j, a)'
<1>1. None \notin Jobs /\ \A p \in Pools : queue'[p] \subseteq Jobs
  BY DEF SlotsAssumption, TypeInv, TypeOK
<1>2. \A p \in Pools : dispatcher'[p].job \in Jobs \cup {None}
  BY DEF TypeInv, TypeOK, DispatcherState, Idle
<1>3. \A a \in flight' \cup ({admitted'} \ {None}) : a.job \in Jobs
  BY DEF TypeInv, TypeOK, Assignment
<1> DEFINE Q == UNION {queue'[p] : p \in Pools}
           D == {dispatcher'[p].job : p \in Pools}
<1>a. \A j : j \in Q <=> \E p \in Pools : j \in queue'[p]
  OBVIOUS
<1>b. \A j : j \in D <=> \E p \in Pools : dispatcher'[p].job = j
  OBVIOUS
<1>d. WaitingJobs' = Q \cup (D \ {None})
  BY DEF WaitingJobs
<1> HIDE DEF Q, D
<1>c. \A j : j \in WaitingJobs' <=> \/ \E p \in Pools : j \in queue'[p]
                                    \/ j # None /\ \E p \in Pools : dispatcher'[p].job = j
  BY <1>a, <1>b, <1>d
<1>4. WaitingJobs' \subseteq Jobs
  BY <1>1, <1>2, <1>c
<1>5. HandedJobs' \subseteq Jobs
  BY <1>3 DEF HandedJobs
<1>6. ASSUME NEW j \in Jobs
      PROVE  j \in WaitingJobs' <=> \E p \in Pools : Queued(j, p)' \/ HeldBy(j, p)'
  BY <1>1, <1>6, <1>c DEF Queued, HeldBy
<1>7. ASSUME NEW j \in Jobs
      PROVE  j \in HandedJobs' <=> Waits(j)' \/ \E a \in flight' : OnTheWay(j, a)'
  BY <1>7 DEF HandedJobs, Waits, OnTheWay
<1> QED  BY <1>4, <1>5, <1>6, <1>7

\* A step that moves no job from one stage to the next.
LEMMA SameStage ==
  ASSUME UNCHANGED <<WaitingJobs, HandedJobs, active, finished>>
  PROVE  [Delivery!Next]_(Delivery!vars)
BY DEF Delivery!vars

\* Nothing changes for the slots when no stream has the job that ends.
LEMMA NoneEnds ==
  ASSUME TypeInv, NEW k, None # k, \A s \in Slots : active[s] # k, active' = active
  PROVE  active' = [s \in Slots |-> IF active[s] = k THEN None ELSE active[s]]
<1>1. active = [s \in Slots |-> active[s]]
  BY DEF TypeInv, TypeOK
<1>2. [s \in Slots |-> active[s]] = [s \in Slots |-> IF active[s] = k THEN None ELSE active[s]]
  OBVIOUS
<1> QED  BY <1>1, <1>2

LEMMA EndsDelivery ==
  ASSUME TypeInv, NEW J \in SUBSET Jobs,
         \A j \in J : j \in WaitingJobs \cup HandedJobs \/ \E s \in Slots : Runs(j, s),
         None \notin Jobs,
         WaitingJobs' = WaitingJobs \ J, HandedJobs' = HandedJobs \ J,
         active' = [s \in Slots |-> IF active[s] \in J THEN None ELSE active[s]],
         finished' = finished \cup J
  PROVE  [Delivery!Next]_(Delivery!vars)
<1>1. J \subseteq WaitingJobs \cup HandedJobs \cup Delivery!Run
  BY DEF Delivery!Run, Runs
<1>2. Delivery!End(J)
  BY <1>1 DEF Delivery!End
<1> QED  BY <1>2 DEF Delivery!Next

LEMMA EndsOne ==
  ASSUME TypeInv, NEW k \in Jobs,
         k \in WaitingJobs \cup HandedJobs \/ \E s \in Slots : Runs(k, s),
         None \notin Jobs,
         WaitingJobs' = WaitingJobs \ {k}, HandedJobs' = HandedJobs \ {k},
         active' = [s \in Slots |-> IF active[s] = k THEN None ELSE active[s]],
         finished' = finished \cup {k}
  PROVE  [Delivery!Next]_(Delivery!vars)
<1> DEFINE J == {k}
<1>1. active' = [s \in Slots |-> IF active[s] \in J THEN None ELSE active[s]]
  OBVIOUS
<1>2. J \in SUBSET Jobs /\ \A j \in J : j \in WaitingJobs \cup HandedJobs \/ \E s \in Slots : Runs(j, s)
  OBVIOUS
<1>3. WaitingJobs' = WaitingJobs \ J /\ HandedJobs' = HandedJobs \ J /\ finished' = finished \cup J
  OBVIOUS
<1> HIDE DEF J
<1> QED  BY <1>1, <1>2, <1>3, EndsDelivery

\* The dispatcher lets its job go: back to the queue, to the socket task, or to be dropped.
LEMMA LetGoDelivers ==
  ASSUME SlotsAssumption, TypeInv, TypeInv', JobsInv, NEW p \in Pools,
         dispatcher[p].pc # "idle", dispatcher' = [dispatcher EXCEPT ![p] = Idle],
         UNCHANGED <<admitted, active>>,
         \/ Requeue(p) /\ UNCHANGED <<flight, finished>>
         \/ /\ \E a : a.job = dispatcher[p].job /\ a # None /\ flight' = flight \cup {a}
            /\ UNCHANGED <<queue, finished>>
         \/ finished' = finished \cup {dispatcher[p].job} /\ UNCHANGED <<queue, flight>>
  PROVE  [Delivery!Next]_(Delivery!vars)
<1> PICK h : h = dispatcher[p].job
  OBVIOUS
<1>1. h \in Jobs /\ None \notin Jobs /\ HeldBy(h, p)
  BY HeldByDispatcher DEF SlotsAssumption, TypeInv, HeldBy
<1>2. \A q \in Pools : dispatcher'[q].job = IF q = p THEN None ELSE dispatcher[q].job
  BY DEF TypeInv, TypeOK, Idle
<1>3. queue \in [Pools -> SUBSET Jobs] /\ active \in [Slots -> Jobs \cup {None}]
  BY DEF TypeInv, TypeOK
<1>4. /\ \A q \in Pools : ~ Queued(h, q)
      /\ \A q \in Pools \ {p} : ~ HeldBy(h, q)
      /\ h \notin HandedJobs /\ h \in WaitingJobs
      /\ \A s \in Slots : ~ Runs(h, s)
  BY <1>1, HeldOnly, DeliveryIs DEF JobsInv
<1>5. \A j \in Jobs \ {h} : j \in WaitingJobs' <=> j \in WaitingJobs
  <2> TAKE j \in Jobs \ {h}
  <2>1. \A q \in Pools : Queued(j, q)' <=> Queued(j, q)
    BY <1>3 DEF Queued, Requeue
  <2>2. \A q \in Pools : HeldBy(j, q)' <=> HeldBy(j, q)
    BY <1>1, <1>2 DEF HeldBy
  <2> QED  BY <2>1, <2>2, DeliveryIs, DeliveryIsNext
<1>6. CASE Requeue(p) /\ UNCHANGED <<flight, finished>>
  <2>1. Queued(h, p)'
    BY <1>3, <1>6 DEF Requeue, Queued
  <2>2. h \in WaitingJobs'
    BY <1>1, <2>1, DeliveryIsNext
  <2>3. WaitingJobs' = WaitingJobs
    BY <1>4, <1>5, <2>2, DeliveryIs, DeliveryIsNext
  <2>4. HandedJobs' = HandedJobs
    BY <1>6 DEF HandedJobs
  <2> QED  BY <1>6, <2>3, <2>4, SameStage
<1>7. CASE UNCHANGED queue
  <2>1. \A q \in Pools : ~ Queued(h, q)' /\ ~ HeldBy(h, q)'
    BY <1>1, <1>2, <1>4, <1>7 DEF Queued, HeldBy
  <2>2. h \notin WaitingJobs'
    BY <1>1, <2>1, DeliveryIsNext
  <2>3. WaitingJobs' = WaitingJobs \ {h}
    BY <1>5, <2>2, DeliveryIs, DeliveryIsNext
  <2>4. CASE /\ \E a : a.job = h /\ a # None /\ flight' = flight \cup {a}
             /\ UNCHANGED finished
    <3>1. HandedJobs' = HandedJobs \cup {h}
      BY <2>4 DEF HandedJobs
    <3>2. Delivery!Hand(h)
      BY <1>4, <2>3, <2>4, <3>1 DEF Delivery!Hand
    <3> QED  BY <1>1, <3>2 DEF Delivery!Next
  <2>5. CASE finished' = finished \cup {h} /\ UNCHANGED flight
    <3>1. HandedJobs' = HandedJobs \ {h}
      BY <1>4, <2>5 DEF HandedJobs
    <3>2. \A s \in Slots : active[s] # h
      BY <1>4 DEF Runs
    <3>3. active' = [s \in Slots |-> IF active[s] = h THEN None ELSE active[s]]
      BY <1>1, <3>2, NoneEnds
    <3> QED  BY <1>1, <1>4, <2>3, <2>5, <3>1, <3>3, EndsOne
  <2>6. CASE Requeue(p) /\ UNCHANGED <<flight, finished>>
    BY <1>6, <2>6
  <2> QED  BY <2>4, <2>5, <2>6
<1> QED  BY <1>6, <1>7

LEMMA DispatcherDelivers ==
  ASSUME SlotsAssumption, TypeInv, TypeInv', JobsInv, NEW p \in Pools, DispatcherStep(p)
  PROVE  [Delivery!Next]_(Delivery!vars)
<1>0. UNCHANGED <<admitted, active>>
  BY DEF DispatcherStep, Sweep, Pick, Claim, Recheck, Abandon, Release, Assign,
         dispatchFrame, slotVars, socketVars
<1>a. None \notin Jobs /\ None \notin Assignment
  BY DEF SlotsAssumption
<1>b. ASSUME UNCHANGED <<queue, flight, finished>>,
             \A q \in Pools : dispatcher'[q].job = dispatcher[q].job
      PROVE  [Delivery!Next]_(Delivery!vars)
  BY <1>0, <1>b, SameStage DEF WaitingJobs, HandedJobs
<1>1. CASE Sweep(p)
  <2> DEFINE J == queue[p] \cap given_up
  <2>1. /\ UNCHANGED <<dispatcher, flight>> /\ finished' = finished \cup J
        /\ \A q \in Pools : queue'[q] = IF q = p THEN queue[q] \ J ELSE queue[q]
        /\ J \subseteq Jobs /\ active \in [Slots -> Jobs \cup {None}]
    BY <1>1 DEF Sweep, TypeInv, TypeOK
  <2>2. \A j \in Jobs, q \in Pools : /\ Queued(j, q)' <=> Queued(j, q) /\ ~ (q = p /\ j \in J)
                                     /\ HeldBy(j, q)' <=> HeldBy(j, q)
    BY <2>1 DEF Queued, HeldBy
  <2>3. ASSUME NEW j \in J
        PROVE  /\ \A q \in Pools \ {p} : ~ Queued(j, q)
               /\ \A q \in Pools : ~ HeldBy(j, q)
               /\ j \in WaitingJobs /\ j \notin HandedJobs
               /\ \A s \in Slots : ~ Runs(j, s)
    <3>1. j \in Jobs /\ Queued(j, p)
      BY <2>1 DEF Queued
    <3> QED  BY <3>1, QueuedOnly, DeliveryIs DEF JobsInv
  <2> HIDE DEF J
  <2>4. WaitingJobs' = WaitingJobs \ J
    <3>1. \A j \in J : j \notin WaitingJobs'
      BY <2>1, <2>2, <2>3, DeliveryIsNext
    <3>2. \A j \in Jobs \ J : j \in WaitingJobs' <=> j \in WaitingJobs
      BY <2>2, DeliveryIs, DeliveryIsNext
    <3> QED  BY <3>1, <3>2, DeliveryIs, DeliveryIsNext
  <2>5. HandedJobs' = HandedJobs \ J
    BY <1>0, <2>1, <2>3 DEF HandedJobs
  <2>6. active' = [s \in Slots |-> IF active[s] \in J THEN None ELSE active[s]]
    BY <1>0, <2>1, <2>3 DEF Runs
  <2> QED  BY <1>a, <2>1, <2>3, <2>4, <2>5, <2>6, EndsDelivery
<1>2. ASSUME NEW k \in Jobs, Pick(p, k) PROVE [Delivery!Next]_(Delivery!vars)
  <2>1. UNCHANGED <<flight, finished>> /\ dispatcher[p] = Idle /\ k \in queue[p]
    BY <1>2 DEF Pick
  <2>2. CASE UNCHANGED <<dispatcher, queue>>
    BY <1>b, <2>1, <2>2
  <2>3. CASE /\ dispatcher' = [dispatcher EXCEPT ![p] =
                                 [pc |-> "checked", offer |-> Head(offers[p]), job |-> k]]
             /\ queue' = [queue EXCEPT ![p] = @ \ {k}]
    <3>1. /\ \A q \in Pools : dispatcher'[q].job = IF q = p THEN k ELSE dispatcher[q].job
          /\ \A q \in Pools : queue'[q] = IF q = p THEN queue[q] \ {k} ELSE queue[q]
          /\ dispatcher[p].job = None
      <4>1. DOMAIN dispatcher = Pools /\ DOMAIN queue = Pools
        BY DEF TypeInv, TypeOK
      <4>2. dispatcher[p].job = None
        BY <2>1 DEF Idle
      <4>3. \A q \in Pools : dispatcher'[q].job = IF q = p THEN k ELSE dispatcher[q].job
        BY <2>3, <4>1
      <4>4. \A q \in Pools : queue'[q] = IF q = p THEN queue[q] \ {k} ELSE queue[q]
        BY <2>3, <4>1
      <4> QED  BY <4>2, <4>3, <4>4
    <3>2. \A j \in Jobs \ {k} : j \in WaitingJobs' <=> j \in WaitingJobs
      <4> TAKE j \in Jobs \ {k}
      <4>1. \A q \in Pools : (Queued(j, q)' <=> Queued(j, q)) /\ (HeldBy(j, q)' <=> HeldBy(j, q))
        BY <1>a, <3>1 DEF Queued, HeldBy
      <4> QED  BY <4>1, DeliveryIs, DeliveryIsNext
    <3>3. Queued(k, p) /\ HeldBy(k, p)'
      BY <2>1, <3>1 DEF Queued, HeldBy
    <3>4. k \in WaitingJobs /\ k \in WaitingJobs'
      BY <3>3, DeliveryIs, DeliveryIsNext
    <3>5. WaitingJobs' = WaitingJobs
      BY <3>2, <3>4, DeliveryIs, DeliveryIsNext
    <3> QED  BY <1>0, <2>1, <3>5, SameStage DEF HandedJobs
  <2> QED  BY <1>2, <2>2, <2>3 DEF Pick
<1>3. CASE Claim(p)
  <2>1. dispatcher[p].pc # "idle" /\ UNCHANGED <<flight, finished>>
    BY <1>3 DEF Claim
  <2>2. \/ Requeue(p)
        \/ dispatcher' = [dispatcher EXCEPT ![p].pc = "swapped"] /\ UNCHANGED queue
    BY <1>3 DEF Claim
  <2> QED  BY <1>0, <1>b, <2>1, <2>2, LetGoDelivers, SamePoint DEF Requeue, Points, TypeInv
<1>4. CASE Recheck(p)
  <2>1. dispatcher[p].pc # "idle" /\ UNCHANGED <<flight, finished>>
    BY <1>4 DEF Recheck
  <2>2. \/ Requeue(p)
        \/ dispatcher' = [dispatcher EXCEPT ![p].pc = "owned"] /\ UNCHANGED queue
    BY <1>4 DEF Recheck
  <2> QED  BY <1>0, <1>b, <2>1, <2>2, LetGoDelivers, SamePoint DEF Requeue, Points, TypeInv
<1>5. CASE Abandon(p) \/ Release(p)
  <2>1. dispatcher[p].pc # "idle" /\ UNCHANGED <<queue, flight>>
    BY <1>5 DEF Abandon, Release
  <2>2. \/ /\ dispatcher' = [dispatcher EXCEPT ![p] = Idle]
           /\ finished' = finished \cup {dispatcher[p].job}
        \/ dispatcher' = [dispatcher EXCEPT ![p].pc = "releasing"] /\ UNCHANGED finished
    BY <1>5 DEF Abandon, Release
  <2> QED  BY <1>0, <1>b, <2>1, <2>2, LetGoDelivers, SamePoint DEF Points, TypeInv
<1>6. CASE Assign(p)
  <2>1. dispatcher[p].pc # "idle" /\ UNCHANGED finished
    BY <1>6 DEF Assign
  <2>2. CASE alive
    <3> DEFINE o == dispatcher[p].offer
               a == [slot |-> o.slot, route |-> o.route, gen |-> o.gen, job |-> dispatcher[p].job]
    <3>1. /\ dispatcher' = [dispatcher EXCEPT ![p] = Idle] /\ UNCHANGED queue
          /\ flight' = flight \cup {a}
      BY <1>6, <2>2 DEF Assign
    <3>2. a \in Assignment
      BY <2>1, HeldByDispatcher DEF TypeInv, Assignment, Offer
    <3>3. a # None /\ a.job = dispatcher[p].job
      BY <1>a, <3>2
    <3> HIDE DEF a
    <3> QED  BY <1>0, <2>1, <3>1, <3>3, LetGoDelivers
  <2>3. CASE ~ alive
    <3>1. Requeue(p) /\ UNCHANGED flight
      BY <1>6, <2>3 DEF Assign
    <3> QED  BY <1>0, <2>1, <3>1, LetGoDelivers DEF Requeue
  <2> QED  BY <2>2, <2>3
<1> QED  BY <1>1, <1>2, <1>3, <1>4, <1>5, <1>6 DEF DispatcherStep

\* A request that is sent to a pool was nowhere.
LEMMA EnqueueDelivers ==
  ASSUME SlotsAssumption, TypeInv, TypeInv', JobsInv, NEW k \in Jobs, Enqueue(k)
  PROVE  [Delivery!Next]_(Delivery!vars)
<1>1. /\ UNCHANGED <<dispatcher, flight, admitted, active, finished>>
      /\ k \notin entered /\ JobPool[k] \in Pools
  BY DEF Enqueue, jobFrame, slotVars, socketVars, SlotsAssumption
<1>2. \A q \in Pools : queue'[q] = IF q = JobPool[k] THEN queue[q] \cup {k} ELSE queue[q]
  BY DEF TypeInv, TypeOK, Enqueue
<1>3. Places(k) = {} /\ None \notin Jobs
  BY <1>1 DEF JobsInv, OnePlace, SlotsAssumption
<1>4. /\ \A q \in Pools : ~ Queued(k, q) /\ ~ HeldBy(k, q)
      /\ \A a \in flight : ~ OnTheWay(k, a)
      /\ ~ Waits(k) /\ k \notin finished /\ \A s \in Slots : ~ Runs(k, s)
  BY <1>3, PlaceKinds
<1>5. k \notin WaitingJobs \cup HandedJobs \cup Delivery!Run \cup finished
  BY <1>3, <1>4, DeliveryIs DEF Delivery!Run, Runs
<1>6. WaitingJobs' = WaitingJobs \cup {k}
  <2>1. Queued(k, JobPool[k])'
    BY <1>1, <1>2 DEF Queued
  <2>2. k \in WaitingJobs'
    BY <1>1, <2>1, DeliveryIsNext
  <2>3. ASSUME NEW j \in Jobs \ {k} PROVE j \in WaitingJobs' <=> j \in WaitingJobs
    <3>1. \A q \in Pools : (Queued(j, q)' <=> Queued(j, q)) /\ (HeldBy(j, q)' <=> HeldBy(j, q))
      BY <1>1, <1>2 DEF Queued, HeldBy
    <3> QED  BY <3>1, DeliveryIs, DeliveryIsNext
  <2> QED  BY <2>2, <2>3, DeliveryIs, DeliveryIsNext
<1>7. HandedJobs' = HandedJobs
  BY <1>1 DEF HandedJobs
<1>8. Delivery!Send(k)
  BY <1>1, <1>5, <1>6, <1>7 DEF Delivery!Send
<1> QED  BY <1>8 DEF Delivery!Next

-----------------------------------------------------------------------------
\* The socket task admits a job that was handed to it, starts it on a free slot, or ends it.
LEMMA ReceiveDelivers ==
  ASSUME SlotsAssumption, TypeInv, TypeInv', JobsInv, NEW a \in flight, Receive(a)
  PROVE  [Delivery!Next]_(Delivery!vars)
<1>1. a \in Assignment /\ a.job \in Jobs /\ a # None /\ None \notin Jobs
  BY DEF TypeInv, TypeOK, Assignment, SlotsAssumption
<1>2. /\ admitted = None /\ flight' = flight \ {a}
      /\ UNCHANGED <<queue, dispatcher>>
      /\ \/ admitted' = a /\ UNCHANGED <<active, finished>>
         \/ Reject(a) /\ UNCHANGED admitted
  BY DEF Receive, Selecting, socketFrame, slotVars
<1>3. active' = active /\ (admitted' = a => UNCHANGED finished)
      /\ (admitted' # a => finished' = finished \cup {a.job} /\ admitted' = None)
  BY <1>1, <1>2, RejectTypes DEF Reject, TypeInv
<1> PICK k : k = a.job
  OBVIOUS
<1>4. /\ \A b \in flight \ {a} : ~ OnTheWay(k, b)
      /\ \A q \in Pools : ~ Queued(k, q) /\ ~ HeldBy(k, q)
      /\ \A s \in Slots : ~ Runs(k, s)
  BY <1>1, OnTheWayOnly DEF JobsInv, OnTheWay
<1>5. k \notin WaitingJobs /\ WaitingJobs' = WaitingJobs
  BY <1>1, <1>2, <1>4, DeliveryIs DEF WaitingJobs
<1>6. HandedJobs = {b.job : b \in flight}
  BY <1>2 DEF HandedJobs
<1>7. CASE admitted' = a
  <2>1. HandedJobs' = HandedJobs
    BY <1>1, <1>2, <1>6, <1>7 DEF HandedJobs
  <2> QED  BY <1>3, <1>5, <1>7, <2>1, SameStage
<1>8. CASE admitted' # a
  <2>1. HandedJobs' = HandedJobs \ {k} /\ k \in HandedJobs
    BY <1>2, <1>3, <1>4, <1>6, <1>8 DEF HandedJobs, OnTheWay
  <2>2. \A s \in Slots : active[s] # k
    BY <1>4 DEF Runs
  <2>3. active' = [s \in Slots |-> IF active[s] = k THEN None ELSE active[s]]
    BY <1>1, <1>3, <2>2, NoneEnds
  <2> QED  BY <1>1, <1>3, <1>5, <1>8, <2>1, <2>3, EndsOne
<1> QED  BY <1>7, <1>8

LEMMA AdmittedDelivers ==
  ASSUME SlotsAssumption, TypeInv, TypeInv', JobsInv, RejectRoute \/ StartStream
  PROVE  [Delivery!Next]_(Delivery!vars)
<1>1. /\ admitted \in Assignment /\ admitted # None /\ admitted' = None
      /\ UNCHANGED <<queue, dispatcher, flight>>
  BY DEF RejectRoute, StartStream, socketFrame, TypeInv, TypeOK
<1> PICK k, t : k = admitted.job /\ t = admitted.slot
  OBVIOUS
<1>2. k \in Jobs /\ t \in Slots /\ None \notin Jobs /\ Waits(k)
  BY <1>1 DEF Assignment, SlotsAssumption, Waits
<1>3. /\ \A b \in flight : ~ OnTheWay(k, b)
      /\ \A q \in Pools : ~ Queued(k, q) /\ ~ HeldBy(k, q)
      /\ \A s \in Slots : ~ Runs(k, s)
  BY <1>2, WaitsOnly DEF JobsInv
<1>4. k \notin WaitingJobs /\ WaitingJobs' = WaitingJobs
  BY <1>1, <1>2, <1>3, DeliveryIs DEF WaitingJobs
<1>5. k \in HandedJobs /\ HandedJobs' = HandedJobs \ {k}
  BY <1>1, <1>3 DEF HandedJobs, OnTheWay
<1>6. CASE RejectRoute
  <2>1. active' = active /\ finished' = finished \cup {k}
    BY <1>1, <1>6, RejectTypes DEF RejectRoute, Reject, TypeInv
  <2>2. \A s \in Slots : active[s] # k
    BY <1>3 DEF Runs
  <2>3. active' = [s \in Slots |-> IF active[s] = k THEN None ELSE active[s]]
    BY <1>2, <2>1, <2>2, NoneEnds
  <2> QED  BY <1>2, <1>4, <1>5, <2>1, <2>3, EndsOne
<1>7. CASE StartStream
  <2>1. active[t] = None /\ active' = [active EXCEPT ![t] = k] /\ UNCHANGED finished
    BY <1>1, <1>7 DEF StartStream, TypeInv, Streams
  <2>2. Delivery!Start(k, t)
    BY <1>4, <1>5, <2>1 DEF Delivery!Start
  <2> QED  BY <1>2, <2>2 DEF Delivery!Next
<1> QED  BY <1>6, <1>7

LEMMA EndDelivers ==
  ASSUME SlotsAssumption, TypeInv, TypeInv', JobsInv, NEW t \in Slots, EndStream(t)
  PROVE  [Delivery!Next]_(Delivery!vars)
<1>1. /\ active' = [active EXCEPT ![t] = None] /\ active[t] # None
      /\ finished' = finished \cup {active[t]}
      /\ UNCHANGED <<queue, dispatcher, flight, admitted>>
  BY DEF EndStream, Reset, socketFrame
<1> PICK k : k = active[t]
  OBVIOUS
<1>2. k \in Jobs /\ None \notin Jobs /\ Runs(k, t)
  BY <1>1 DEF SlotsAssumption, TypeInv, TypeOK, Runs
<1>3. /\ \A b \in flight : ~ OnTheWay(k, b)
      /\ \A q \in Pools : ~ Queued(k, q) /\ ~ HeldBy(k, q)
      /\ \A s \in Slots \ {t} : ~ Runs(k, s)
      /\ ~ Waits(k)
  BY <1>2, RunsOnly DEF JobsInv
<1>4. k \notin WaitingJobs \cup HandedJobs
  BY <1>2, <1>3, DeliveryIs
<1>5. WaitingJobs' = WaitingJobs \ {k} /\ HandedJobs' = HandedJobs \ {k}
  BY <1>1, <1>4 DEF WaitingJobs, HandedJobs
<1>6. active' = [s \in Slots |-> IF active[s] = k THEN None ELSE active[s]]
  <2>1. active \in [Slots -> Jobs \cup {None}]
    BY DEF TypeInv, TypeOK
  <2>2. \A s \in Slots : active[s] = k <=> s = t
    BY <1>2, <1>3 DEF Runs
  <2>3. active' = [s \in Slots |-> IF s = t THEN None ELSE active[s]]
    BY <1>1, <2>1
  <2> QED  BY <2>2, <2>3
<1> QED  BY <1>1, <1>2, <1>5, <1>6, EndsOne

LEMMA LoseDelivers ==
  ASSUME SlotsAssumption, TypeInv, TypeInv', JobsInv, SocketLost \/ SendFailed
  PROVE  [Delivery!Next]_(Delivery!vars)
<1> DEFINE J == HandedJobs \cup {active[s] : s \in ActiveSlots}
<1>1. /\ UNCHANGED <<queue, dispatcher>>
      /\ active' = [s \in Slots |-> None] /\ flight' = {} /\ admitted' = None
      /\ finished' = finished \cup {active[s] : s \in ActiveSlots} \cup {a.job : a \in flight}
                       \cup (IF admitted = None THEN {} ELSE {admitted.job})
  BY DEF SocketLost, SendFailed, Lose, socketFrame
<1>2. finished' = finished \cup J
  BY <1>1 DEF HandedJobs
<1>3. active \in [Slots -> Jobs \cup {None}] /\ None \notin Jobs
  BY DEF TypeInv, TypeOK, SlotsAssumption
<1>4. /\ J \subseteq Jobs
      /\ \A j \in J : j \in WaitingJobs \cup HandedJobs \/ \E s \in Slots : Runs(j, s)
  BY <1>3, DeliveryIs DEF ActiveSlots, Runs
<1>5. \A j \in J : j \notin WaitingJobs
  <2> TAKE j \in J
  <2>1. j \in Jobs /\ (Waits(j) \/ (\E a \in flight : OnTheWay(j, a)) \/ \E s \in Slots : Runs(j, s))
    BY <1>3, DeliveryIs DEF ActiveSlots, Runs
  <2>2. \A q \in Pools : ~ Queued(j, q) /\ ~ HeldBy(j, q)
    BY <2>1, WaitsOnly, OnTheWayOnly, RunsOnly DEF JobsInv
  <2> QED  BY <2>1, <2>2, DeliveryIs
<1>6. WaitingJobs' = WaitingJobs
  BY <1>1 DEF WaitingJobs
<1>7. HandedJobs' = HandedJobs \ J
  BY <1>1 DEF HandedJobs
<1>8. active' = [s \in Slots |-> IF active[s] \in J THEN None ELSE active[s]]
  BY <1>1, <1>3 DEF ActiveSlots
<1> HIDE DEF J
<1> QED  BY <1>2, <1>3, <1>4, <1>5, <1>6, <1>7, <1>8, EndsDelivery

LEMMA StepDelivers ==
  ASSUME SlotsAssumption, TypeInv, TypeInv', JobsInv, [Next]_vars
  PROVE  [Delivery!Next]_(Delivery!vars)
<1>1. ASSUME UNCHANGED <<queue, dispatcher, flight, admitted, active, finished>>
      PROVE  [Delivery!Next]_(Delivery!vars)
  BY <1>1, SameStage DEF WaitingJobs, HandedJobs
<1>2. CASE UNCHANGED vars
  BY <1>1, <1>2 DEF vars, slotVars, socketVars, jobVars
<1>3. CASE \E j \in Jobs : Enqueue(j) \/ GiveUp(j)
  BY <1>1, <1>3, EnqueueDelivers DEF GiveUp, jobFrame, slotVars, socketVars
<1>4. CASE SocketStep
  <2>1. CASE PublishSlot \/ PublishOffer \/ ControlChanged \/ RouteChanged
    BY <1>1, <2>1
    DEF PublishSlot, PublishOffer, ControlChanged, RouteChanged, socketFrame, slotVars
  <2> QED  BY <1>4, <2>1, ReceiveDelivers, AdmittedDelivers DEF SocketStep
<1>5. CASE ControlStep
  <2>1. UNCHANGED controlFrame
    BY <1>5 DEF ControlStep, DetachControl, AttachControl, RegisterRoute, UnregisterRoute
  <2> QED  BY <1>1, <2>1 DEF controlFrame, slotVars, socketVars, jobVars
<1>6. CASE (\E s \in Slots : EndStream(s)) \/ SocketLost \/ SendFailed
  BY <1>6, EndDelivers, LoseDelivers
<1>7. CASE \E p \in Pools : DispatcherStep(p)
  BY <1>7, DispatcherDelivers
<1> QED  BY <1>2, <1>3, <1>4, <1>5, <1>6, <1>7 DEF Next

\* For any slots, pools, routes and jobs: a job is assigned to one slot, once, starts only
\* where no other stream runs, and is over once; failed claims, lost sockets and detached
\* controls bring nothing back that was sent (dispatch_requests, run_split_data_socket).
THEOREM DeliveredOnce == Spec => DeliverySpec
<1> USE SlotsAssumption
<1>1. Init => Delivery!Init
  <2> SUFFICES ASSUME Init PROVE Delivery!Init  OBVIOUS
  <2>1. WaitingJobs = {}
    BY DEF Init, WaitingJobs, Idle
  <2>2. HandedJobs = {}
    BY DEF Init, HandedJobs
  <2> QED  BY <2>1, <2>2 DEF Init, Delivery!Init
<1>2. TypeInv /\ JobsInv /\ TypeInv' /\ [Next]_vars => [Delivery!Next]_(Delivery!vars)
  BY StepDelivers
<1> QED  BY JobsInvHolds, <1>1, <1>2, PTL DEF Spec, DeliverySpec, Delivery!Spec
=============================================================================
