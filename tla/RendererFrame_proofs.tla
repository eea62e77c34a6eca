------------------------- MODULE RendererFrame_proofs -------------------------
(* Proofs that no requested setting is lost on its way to the screen, for any  *)
(* kinds of settings and any bounds on changes and failures.                   *)
EXTENDS RendererFrame, TLAPS

\* A change number that the changes made so far allow.
Images == [Kinds -> 0..(MaxAsks - frLeft)]
SetterType == [pc : {"none", "mark", "invalidate"}, kind : Kinds]
SetterOf(k) == frSetter[LockOf(k)]
Marking(k) == SetterOf(k) = [pc |-> "mark", kind |-> k]

-----------------------------------------------------------------------------
(* The inductive invariant.                                                    *)

TypesHeld ==
    /\ frAsked \in Images /\ frCurrent \in Images /\ frInternal \in Images
    /\ frHandled \in Images /\ frDrawn \in Images /\ frZone \in Images /\ frSeen \in Images
    /\ frSetter \in [Locks -> SetterType]
    /\ frMask \subseteq Kinds /\ frTaken \subseteq Kinds
    /\ frWanted \in BOOLEAN /\ frFresh \in BOOLEAN
    /\ frPc \in {"outside", "config", "state", "copy", "handle", "internal", "prepared",
                 "render", "draw", "drawn"}
    /\ frLeft \in 0..MaxAsks /\ frFails \in 0..MaxFails
    /\ frWorker \in {"waiting", "woken", "busy"}

CountsHeld == frCount \in Nat /\ frCaptured \in Nat /\ frCaptured <= frCount

\* Which changes the render thread has in its hands, at each of its steps.
TakenHeld ==
    /\ frPc \in {"outside", "render", "draw", "drawn"} => frTaken = {}
    /\ frPc \in {"config", "state"} => frTaken \subseteq {Config}
    /\ frPc = "config" => frTaken = {Config}
    /\ frPc \in {"copy", "handle"} => frTaken \cap StateKinds # {}
    /\ frPc = "internal" => frTaken # {}

\* The copy the render thread works on is up to date, or the difference is marked.
CopyHeld(k) ==
    \/ frCurrent[k] = frAsked[k] \/ k \in frMask \/ Marking(k)
    \/ k = Config /\ frPc = "config"
    \/ k \in StateKinds \cap frTaken /\ frPc = "copy"

\* What was applied is up to date, or the difference is marked or taken; nothing
\* is only taken once it has been applied.
AppliedHeld(k) ==
    \/ frHandled[k] = frAsked[k] \/ k \in frMask \/ Marking(k)
    \/ k = Config /\ frPc = "config"
    \/ k \in StateKinds \cap frTaken /\ frPc \in {"copy", "handle"}

\* Between deriving the internal state and the next frame that takes a change, the
\* internal state is that of the settings, unless a change is marked. At "state"
\* that is so if the frame took nothing.
InternalHeld ==
    \/ frMask # {} \/ \E k \in Kinds : Marking(k)
    \/ frInternal = frAsked
    \/ frPc \in {"config", "copy", "handle", "internal"}
    \/ frPc = "state" /\ frTaken # {}

\* The screen shows the internal state, or a frame is owed.
DrawnHeld ==
    /\ frDrawn = frInternal \/ frCount > 0 \/ frPc \in {"handle", "internal"}
    /\ frPc = "drawn" => frDrawn = frInternal

FrameInv ==
    /\ TypesHeld /\ CountsHeld /\ TakenHeld
    /\ \A k \in Kinds : CopyHeld(k) /\ AppliedHeld(k)
    /\ InternalHeld /\ DrawnHeld

-----------------------------------------------------------------------------
(* Every action keeps the invariant.                                           *)

\* A setter writes under its lock: the difference it makes is its own until marked.
LEMMA AskWriteKeeps ==
    ASSUME NEW j \in Kinds, AskWrite(j), FrameInv
    PROVE  FrameInv'
<1> USE FrameConfigAssumption, FrameBoundsAssumption DEF FrameInv, Kinds
<1>1. TypesHeld'
  BY DEF AskWrite, imageVars, zoneVars, TypesHeld, Images, SetterType, Locks
<1>2. CountsHeld'
  BY DEF AskWrite, CountsHeld
<1>3. TakenHeld'
  BY DEF AskWrite, TakenHeld, TypesHeld
<1>4. \A k \in Kinds : CopyHeld(k)'
  <2> SUFFICES ASSUME NEW k \in Kinds PROVE CopyHeld(k)'
    OBVIOUS
  <2>1. LockOf(j) \in Locks /\ LockOf(k) \in Locks
    BY DEF Locks
  <2>2. CASE k = j
    <3>1. Marking(k)'
      BY <2>1, <2>2 DEF AskWrite, TypesHeld, Marking, SetterOf
    <3>2. QED
      BY <3>1 DEF CopyHeld
  <2>3. CASE k # j
    <3>1. frAsked'[k] = frAsked[k]
      BY <2>3 DEF AskWrite, TypesHeld
    <3>2. Marking(k) => Marking(k)'
      BY <2>1 DEF AskWrite, TypesHeld, Marking, SetterOf, LockFree, NoSetter
    <3>3. QED
      BY <3>1, <3>2 DEF AskWrite, CopyHeld, imageVars
  <2>4. QED
    BY <2>2, <2>3
<1>5. \A k \in Kinds : AppliedHeld(k)'
  <2> SUFFICES ASSUME NEW k \in Kinds PROVE AppliedHeld(k)'
    OBVIOUS
  <2>1. LockOf(j) \in Locks /\ LockOf(k) \in Locks
    BY DEF Locks
  <2>2. CASE k = j
    <3>1. Marking(k)'
      BY <2>1, <2>2 DEF AskWrite, TypesHeld, Marking, SetterOf
    <3>2. QED
      BY <3>1 DEF AppliedHeld
  <2>3. CASE k # j
    <3>1. frAsked'[k] = frAsked[k]
      BY <2>3 DEF AskWrite, TypesHeld
    <3>2. Marking(k) => Marking(k)'
      BY <2>1 DEF AskWrite, TypesHeld, Marking, SetterOf, LockFree, NoSetter
    <3>3. QED
      BY <3>1, <3>2 DEF AskWrite, AppliedHeld, imageVars
  <2>4. QED
    BY <2>2, <2>3
<1>6. InternalHeld'
  BY DEF AskWrite, InternalHeld, CopyHeld, TypesHeld, Marking, SetterOf, Locks
<1>7. DrawnHeld'
  BY DEF AskWrite, imageVars, DrawnHeld, CountsHeld, TypesHeld
<1>8. QED
  BY <1>1, <1>2, <1>3, <1>4, <1>5, <1>6, <1>7

LEMMA AskMarkKeeps ==
    ASSUME NEW lock \in Locks, AskMark(lock), FrameInv
    PROVE  FrameInv'
<1> USE FrameConfigAssumption, FrameBoundsAssumption DEF FrameInv, Kinds
<1>1. TypesHeld'
  BY DEF AskMark, imageVars, zoneVars, TypesHeld, Images, SetterType
<1>2. CountsHeld'
  BY DEF AskMark, CountsHeld
<1>3. TakenHeld'
  BY DEF AskMark, TakenHeld, TypesHeld
<1>4. \A k \in Kinds : CopyHeld(k)'
  <2> SUFFICES ASSUME NEW k \in Kinds PROVE CopyHeld(k)'
    OBVIOUS
  <2>1. LockOf(k) \in Locks
    BY DEF Locks
  <2>2. Marking(k) => Marking(k)' \/ k \in frMask'
    BY <2>1 DEF AskMark, TypesHeld, Marking, SetterOf
  <2>3. QED
    BY <2>2 DEF AskMark, CopyHeld, imageVars
<1>5. \A k \in Kinds : AppliedHeld(k)'
  <2> SUFFICES ASSUME NEW k \in Kinds PROVE AppliedHeld(k)'
    OBVIOUS
  <2>1. LockOf(k) \in Locks
    BY DEF Locks
  <2>2. Marking(k) => Marking(k)' \/ k \in frMask'
    BY <2>1 DEF AskMark, TypesHeld, Marking, SetterOf
  <2>3. QED
    BY <2>2 DEF AskMark, AppliedHeld, imageVars
<1>6. InternalHeld'
  BY DEF AskMark, InternalHeld, CopyHeld, TypesHeld
<1>7. DrawnHeld'
  BY DEF AskMark, imageVars, DrawnHeld, CountsHeld, TypesHeld
<1>8. QED
  BY <1>1, <1>2, <1>3, <1>4, <1>5, <1>6, <1>7

LEMMA AskInvalidateKeeps ==
    ASSUME NEW lock \in Locks, AskInvalidate(lock), FrameInv
    PROVE  FrameInv'
<1> USE FrameConfigAssumption, FrameBoundsAssumption DEF FrameInv, Kinds
<1>1. TypesHeld'
  BY DEF AskInvalidate, InvalidateFrame, imageVars, zoneVars, TypesHeld, Images, SetterType,
     NoSetter
<1>2. CountsHeld'
  BY DEF AskInvalidate, InvalidateFrame, CountsHeld
<1>3. TakenHeld'
  BY DEF AskInvalidate, TakenHeld, TypesHeld
<1>4. \A k \in Kinds : CopyHeld(k)'
  <2> SUFFICES ASSUME NEW k \in Kinds PROVE CopyHeld(k)'
    OBVIOUS
  <2>1. LockOf(k) \in Locks
    BY DEF Locks
  <2>2. Marking(k) => Marking(k)' \/ k \in frMask'
    BY <2>1 DEF AskInvalidate, TypesHeld, Marking, SetterOf
  <2>3. QED
    BY <2>2 DEF AskInvalidate, CopyHeld, imageVars
<1>5. \A k \in Kinds : AppliedHeld(k)'
  <2> SUFFICES ASSUME NEW k \in Kinds PROVE AppliedHeld(k)'
    OBVIOUS
  <2>1. LockOf(k) \in Locks
    BY DEF Locks
  <2>2. Marking(k) => Marking(k)' \/ k \in frMask'
    BY <2>1 DEF AskInvalidate, TypesHeld, Marking, SetterOf
  <2>3. QED
    BY <2>2 DEF AskInvalidate, AppliedHeld, imageVars
<1>6. InternalHeld'
  BY DEF AskInvalidate, InvalidateFrame, imageVars, zoneVars, InternalHeld, CopyHeld, TypesHeld,
     Marking, SetterOf
<1>7. DrawnHeld'
  BY DEF AskInvalidate, InvalidateFrame, imageVars, DrawnHeld, CountsHeld, TypesHeld
<1>8. QED
  BY <1>1, <1>2, <1>3, <1>4, <1>5, <1>6, <1>7

LEMMA TakeConfigKeeps ==
    ASSUME TakeConfig, FrameInv
    PROVE  FrameInv'
<1> USE FrameConfigAssumption, FrameBoundsAssumption DEF FrameInv, Kinds
<1>1. TypesHeld'
  BY DEF TakeConfig, settingVars, imageVars, zoneVars, TypesHeld, Images
<1>2. CountsHeld'
  BY DEF TakeConfig, CountsHeld
<1>3. TakenHeld'
  BY DEF TakeConfig, TakenHeld, TypesHeld
<1>4. \A k \in Kinds : CopyHeld(k)'
  BY DEF TakeConfig, settingVars, imageVars, CopyHeld, TypesHeld, Marking, SetterOf
<1>5. \A k \in Kinds : AppliedHeld(k)'
  BY DEF TakeConfig, settingVars, imageVars, AppliedHeld, CopyHeld, TypesHeld, Marking, SetterOf
<1>6. InternalHeld'
  BY DEF TakeConfig, settingVars, imageVars, InternalHeld, CopyHeld, TypesHeld, Marking,
     SetterOf
<1>7. DrawnHeld'
  BY DEF TakeConfig, imageVars, DrawnHeld, CountsHeld, TypesHeld
<1>8. QED
  BY <1>1, <1>2, <1>3, <1>4, <1>5, <1>6, <1>7

LEMMA CopyConfigKeeps ==
    ASSUME CopyConfig, FrameInv
    PROVE  FrameInv'
<1> USE FrameConfigAssumption, FrameBoundsAssumption DEF FrameInv, Kinds
<1>1. TypesHeld'
  BY DEF CopyConfig, settingVars, zoneVars, TypesHeld, Images
<1>2. CountsHeld'
  BY DEF CopyConfig, CountsHeld
<1>3. TakenHeld'
  BY DEF CopyConfig, TakenHeld, TypesHeld
<1>4. \A k \in Kinds : CopyHeld(k)'
  BY DEF CopyConfig, settingVars, CopyHeld, TypesHeld, Images, Marking, SetterOf
<1>5. \A k \in Kinds : AppliedHeld(k)'
  BY DEF CopyConfig, settingVars, AppliedHeld, CopyHeld, TypesHeld, Images, Marking, SetterOf
<1>6. InternalHeld'
  BY DEF CopyConfig, InternalHeld, CopyHeld, TakenHeld, TypesHeld
<1>7. DrawnHeld'
  BY DEF CopyConfig, DrawnHeld, CountsHeld, TypesHeld
<1>8. QED
  BY <1>1, <1>2, <1>3, <1>4, <1>5, <1>6, <1>7

LEMMA TakeStateKeeps ==
    ASSUME TakeState, FrameInv
    PROVE  FrameInv'
<1> USE FrameConfigAssumption, FrameBoundsAssumption DEF FrameInv, Kinds
<1>1. TypesHeld'
  BY DEF TakeState, settingVars, imageVars, zoneVars, TypesHeld, Images
<1>2. CountsHeld'
  BY DEF TakeState, CountsHeld
<1>3. TakenHeld'
  BY DEF TakeState, TakenHeld, TypesHeld
<1>4. \A k \in Kinds : CopyHeld(k)'
  BY DEF TakeState, settingVars, imageVars, CopyHeld, TypesHeld, Marking, SetterOf
<1>5. \A k \in Kinds : AppliedHeld(k)'
  BY DEF TakeState, settingVars, imageVars, AppliedHeld, CopyHeld, TypesHeld, Marking, SetterOf
<1>6. InternalHeld'
  BY DEF TakeState, settingVars, imageVars, InternalHeld, CopyHeld, TypesHeld, Marking, SetterOf
<1>7. DrawnHeld'
  BY DEF TakeState, imageVars, DrawnHeld, CountsHeld, TypesHeld
<1>8. QED
  BY <1>1, <1>2, <1>3, <1>4, <1>5, <1>6, <1>7

\* The copy of the state is up to date when it is made, whatever was asked for since
\* the mask was taken; a renderer that changes the request marks it.
LEMMA CopyStateKeeps ==
    ASSUME CopyState, FrameInv
    PROVE  FrameInv'
<1> USE FrameConfigAssumption, FrameBoundsAssumption DEF FrameInv, Kinds
<1>1. TypesHeld'
  <2>1. frLeft \in 0..MaxAsks /\ frLeft' \in 0..MaxAsks /\ frLeft' <= frLeft
    BY DEF CopyState, TypesHeld
  <2>2. frAsked' \in Images' /\ frCurrent' \in Images'
    <3>1. CASE frAsked' = frAsked /\ frCurrent' = Copied
      BY <2>1, <3>1 DEF Copied, TypesHeld, Images
    <3>2. CASE /\ frLeft > 0 /\ frLeft' = frLeft - 1
               /\ \E k \in StateKinds : /\ frAsked' = [frAsked EXCEPT ![k] = @ + 1]
                                        /\ frCurrent' = [Copied EXCEPT ![k] = frAsked[k] + 1]
      <4>1. PICK k \in StateKinds : /\ frAsked' = [frAsked EXCEPT ![k] = @ + 1]
                                    /\ frCurrent' = [Copied EXCEPT ![k] = frAsked[k] + 1]
        BY <3>2
      <4>2. \A l \in Kinds : frAsked[l] \in 0..(MaxAsks - frLeft) /\ Copied[l] \in 0..(MaxAsks - frLeft)
        BY DEF Copied, TypesHeld, Images
      <4>3. \A n \in 0..(MaxAsks - frLeft) : n \in 0..(MaxAsks - frLeft') /\ n + 1 \in 0..(MaxAsks - frLeft')
        BY <2>1, <3>2
      <4>4. frAsked' = [l \in Kinds |-> IF l = k THEN frAsked[k] + 1 ELSE frAsked[l]]
        BY <4>1 DEF TypesHeld, Images
      <4>5. frCurrent' = [l \in Kinds |-> IF l = k THEN frAsked[k] + 1 ELSE Copied[l]]
        BY <4>1 DEF Copied
      <4>6. QED
        BY <4>2, <4>3, <4>4, <4>5 DEF Images
    <3>3. QED
      BY <3>1, <3>2 DEF CopyState
  <2>3. Copied \in Images /\ frInternal' \in {frInternal, Copied}
    BY DEF CopyState, Copied, TypesHeld, Images
  <2>4. Images \subseteq Images'
    BY <2>1 DEF Images
  <2>5. frFresh' \in BOOLEAN /\ frMask' \subseteq Kinds /\ frPc' = "handle"
    BY DEF CopyState, TypesHeld
  <2>6. QED
    BY <2>1, <2>2, <2>3, <2>4, <2>5 DEF CopyState, TypesHeld, zoneVars
<1>2. CountsHeld'
  BY DEF CopyState, CountsHeld
<1>3. TakenHeld'
  BY DEF CopyState, TakenHeld, TypesHeld
<1>4. \A k \in Kinds : CopyHeld(k)'
  <2> SUFFICES ASSUME NEW k \in Kinds PROVE CopyHeld(k)'
    OBVIOUS
  <2>1. Marking(k)' <=> Marking(k)
    BY DEF CopyState, Marking, SetterOf
  <2>2. CASE k = Config
    <3>1. frCurrent'[k] = frCurrent[k] /\ frAsked'[k] = frAsked[k] /\ frMask \subseteq frMask'
      BY <2>2 DEF CopyState, Copied, TypesHeld, Images
    <3>2. QED
      BY <2>1, <2>2, <3>1 DEF CopyState, CopyHeld
  <2>3. CASE k # Config
    <3>1. frCurrent'[k] = frAsked'[k]
      BY <2>3 DEF CopyState, Copied, TypesHeld, Images
    <3>2. QED
      BY <3>1 DEF CopyHeld
  <2>4. QED
    BY <2>2, <2>3
<1>5. \A k \in Kinds : AppliedHeld(k)'
  BY DEF CopyState, zoneVars, AppliedHeld, CopyHeld, TypesHeld, Images, Marking, SetterOf, Locks
<1>6. InternalHeld'
  BY DEF CopyState, InternalHeld, CopyHeld, TypesHeld
<1>7. DrawnHeld'
  BY DEF CopyState, DrawnHeld, CountsHeld, TypesHeld
<1>8. QED
  BY <1>1, <1>2, <1>3, <1>4, <1>5, <1>6, <1>7

\* A change that could not be applied goes back to the mask.
LEMMA HandleKeeps ==
    ASSUME Handle, FrameInv
    PROVE  FrameInv'
<1> USE FrameConfigAssumption, FrameBoundsAssumption DEF FrameInv, Kinds
<1>1. TypesHeld'
  <2>1. frHandled' \in Images
    BY DEF Handle, TypesHeld, Images
  <2>2. frFails' \in 0..MaxFails
    <3>1. frFails' = frFails \/ (frFails > 0 /\ frFails' = frFails - 1)
      BY DEF Handle
    <3>2. QED
      BY <3>1 DEF TypesHeld
  <2>3. frWanted' \in BOOLEAN
    BY DEF Handle, InvalidateFrame, TypesHeld
  <2>4. frMask' \subseteq Kinds /\ frTaken' \subseteq Kinds /\ frPc' \in {"internal", "outside"}
    BY DEF Handle, TypesHeld
  <2>5. Images' = Images
    BY DEF Handle, settingVars, Images
  <2>6. QED
    BY <2>1, <2>2, <2>4, <2>5, <2>3 DEF Handle, TypesHeld, settingVars, zoneVars
<1>2. CountsHeld'
  BY DEF Handle, InvalidateFrame, CountsHeld
<1>3. TakenHeld'
  BY DEF Handle, TakenHeld, TypesHeld
<1>4. \A k \in Kinds : CopyHeld(k)'
  BY DEF Handle, settingVars, CopyHeld, TypesHeld, Marking, SetterOf
<1>5. \A k \in Kinds : AppliedHeld(k)'
  <2> SUFFICES ASSUME NEW k \in Kinds PROVE AppliedHeld(k)'
    OBVIOUS
  <2>1. (Marking(k)' <=> Marking(k)) /\ frAsked' = frAsked /\ frMask \subseteq frMask'
    BY DEF Handle, settingVars, Marking, SetterOf
  <2>2. CASE k \in frTaken \ {Config}
    <3>1. frHandled'[k] = frCurrent[k] \/ k \in frMask'
      BY <2>2 DEF Handle
    <3>2. frCurrent[k] = frAsked[k] \/ k \in frMask \/ Marking(k)
      BY <2>2 DEF Handle, CopyHeld
    <3>3. QED
      BY <2>1, <3>1, <3>2 DEF AppliedHeld
  <2>3. CASE k \notin frTaken \ {Config}
    <3>1. frHandled'[k] = frHandled[k]
      BY <2>3 DEF Handle, TypesHeld
    <3>2. QED
      BY <2>1, <2>3, <3>1 DEF Handle, AppliedHeld
  <2>4. QED
    BY <2>2, <2>3
<1>6. InternalHeld'
  BY DEF Handle, InternalHeld, CopyHeld, TakenHeld, TypesHeld
<1>7. DrawnHeld'
  BY DEF Handle, InvalidateFrame, DrawnHeld, CountsHeld, TypesHeld
<1>8. QED
  BY <1>1, <1>2, <1>3, <1>4, <1>5, <1>6, <1>7

\* What could not be derived goes back to the mask.
LEMMA DeriveInternalKeeps ==
    ASSUME DeriveInternal, FrameInv
    PROVE  FrameInv'
<1> USE FrameConfigAssumption, FrameBoundsAssumption DEF FrameInv, Kinds
<1>1. TypesHeld'
  BY DEF DeriveInternal, InvalidateFrame, settingVars, zoneVars, TypesHeld, Images
<1>2. CountsHeld'
  BY DEF DeriveInternal, InvalidateFrame, CountsHeld
<1>3. TakenHeld'
  BY DEF DeriveInternal, TakenHeld, TypesHeld
<1>4. \A k \in Kinds : CopyHeld(k)'
  BY DEF DeriveInternal, settingVars, CopyHeld, TypesHeld, Marking, SetterOf
<1>5. \A k \in Kinds : AppliedHeld(k)'
  BY DEF DeriveInternal, settingVars, AppliedHeld, CopyHeld, TypesHeld, Marking, SetterOf
<1>6. InternalHeld'
  <2>1. \A k \in Kinds : Marking(k)' <=> Marking(k)
    BY DEF DeriveInternal, settingVars, Marking, SetterOf
  <2>2. CASE frMask' # {}
    BY <2>2 DEF InternalHeld
  <2>3. CASE frMask' = {} /\ \E k \in Kinds : Marking(k)
    BY <2>1, <2>3 DEF InternalHeld
  <2>4. CASE frMask' = {} /\ ~\E k \in Kinds : Marking(k)
    <3>1. frMask = {} /\ frInternal' = frCurrent
      BY <2>4 DEF DeriveInternal, TakenHeld
    <3>2. \A k \in Kinds : frCurrent[k] = frAsked[k]
      BY <2>4, <3>1 DEF DeriveInternal, CopyHeld
    <3>3. frCurrent = frAsked
      BY <3>2 DEF TypesHeld, Images
    <3>4. QED
      BY <3>1, <3>3 DEF DeriveInternal, InternalHeld, settingVars
  <2>5. QED
    BY <2>2, <2>3, <2>4
<1>7. DrawnHeld'
  BY DEF DeriveInternal, InvalidateFrame, DrawnHeld, CountsHeld, TypesHeld
<1>8. QED
  BY <1>1, <1>2, <1>3, <1>4, <1>5, <1>6, <1>7

LEMMA PostPrepareKeeps ==
    ASSUME PostPrepare, FrameInv
    PROVE  FrameInv'
<1> USE FrameConfigAssumption, FrameBoundsAssumption DEF FrameInv, Kinds
<1>1. TypesHeld'
  BY DEF PostPrepare, settingVars, imageVars, TypesHeld, Images
<1>2. CountsHeld'
  BY DEF PostPrepare, CountsHeld
<1>3. TakenHeld'
  BY DEF PostPrepare, TakenHeld, TypesHeld
<1>4. \A k \in Kinds : CopyHeld(k)'
  BY DEF PostPrepare, settingVars, imageVars, CopyHeld, TypesHeld, Marking, SetterOf
<1>5. \A k \in Kinds : AppliedHeld(k)'
  BY DEF PostPrepare, settingVars, imageVars, AppliedHeld, CopyHeld, TypesHeld, Marking,
     SetterOf
<1>6. InternalHeld'
  BY DEF PostPrepare, settingVars, imageVars, InternalHeld, CopyHeld, TypesHeld, Marking,
     SetterOf
<1>7. DrawnHeld'
  BY DEF PostPrepare, imageVars, DrawnHeld, CountsHeld, TypesHeld
<1>8. QED
  BY <1>1, <1>2, <1>3, <1>4, <1>5, <1>6, <1>7

LEMMA PreRenderKeeps ==
    ASSUME PreRender, FrameInv
    PROVE  FrameInv'
<1> USE FrameConfigAssumption, FrameBoundsAssumption DEF FrameInv, Kinds
<1>1. TypesHeld'
  BY DEF PreRender, settingVars, imageVars, zoneVars, TypesHeld, Images
<1>2. CountsHeld'
  BY DEF PreRender, CountsHeld
<1>3. TakenHeld'
  BY DEF PreRender, TakenHeld, TypesHeld
<1>4. \A k \in Kinds : CopyHeld(k)'
  BY DEF PreRender, settingVars, imageVars, CopyHeld, TypesHeld, Marking, SetterOf
<1>5. \A k \in Kinds : AppliedHeld(k)'
  BY DEF PreRender, settingVars, imageVars, AppliedHeld, CopyHeld, TypesHeld, Marking, SetterOf
<1>6. InternalHeld'
  BY DEF PreRender, settingVars, imageVars, InternalHeld, CopyHeld, TypesHeld, Marking, SetterOf
<1>7. DrawnHeld'
  BY DEF PreRender, imageVars, DrawnHeld, CountsHeld, TypesHeld
<1>8. QED
  BY <1>1, <1>2, <1>3, <1>4, <1>5, <1>6, <1>7

LEMMA DrawFrameKeeps ==
    ASSUME DrawFrame, FrameInv
    PROVE  FrameInv'
<1> USE FrameConfigAssumption, FrameBoundsAssumption DEF FrameInv, Kinds
<1>1. TypesHeld'
  <2>1. frFails' \in 0..MaxFails
    <3>1. frFails' = frFails \/ (frFails > 0 /\ frFails' = frFails - 1)
      BY DEF DrawFrame
    <3>2. QED
      BY <3>1 DEF TypesHeld
  <2>2. frWanted' \in BOOLEAN /\ frPc' \in {"drawn", "outside"}
    BY DEF DrawFrame, InvalidateFrame, TypesHeld
  <2>3. Images' = Images /\ frDrawn' \in Images
    BY DEF DrawFrame, settingVars, TypesHeld, Images
  <2>4. QED
    BY <2>1, <2>3, <2>2 DEF DrawFrame, TypesHeld, settingVars, zoneVars
<1>2. CountsHeld'
  BY DEF DrawFrame, InvalidateFrame, CountsHeld
<1>3. TakenHeld'
  BY DEF DrawFrame, TakenHeld, TypesHeld
<1>4. \A k \in Kinds : CopyHeld(k)'
  BY DEF DrawFrame, settingVars, CopyHeld, TypesHeld, Marking, SetterOf
<1>5. \A k \in Kinds : AppliedHeld(k)'
  BY DEF DrawFrame, settingVars, AppliedHeld, CopyHeld, TypesHeld, Marking, SetterOf
<1>6. InternalHeld'
  BY DEF DrawFrame, settingVars, InternalHeld, CopyHeld, TypesHeld, Marking, SetterOf
<1>7. DrawnHeld'
  BY DEF DrawFrame, InvalidateFrame, DrawnHeld, CountsHeld, TypesHeld
<1>8. QED
  BY <1>1, <1>2, <1>3, <1>4, <1>5, <1>6, <1>7

LEMMA PostRenderKeeps ==
    ASSUME PostRender, FrameInv
    PROVE  FrameInv'
<1> USE FrameConfigAssumption, FrameBoundsAssumption DEF FrameInv, Kinds
<1>1. TypesHeld'
  BY DEF PostRender, settingVars, imageVars, zoneVars, TypesHeld, Images
<1>2. CountsHeld'
  BY DEF PostRender, CountsHeld
<1>3. TakenHeld'
  BY DEF PostRender, TakenHeld, TypesHeld
<1>4. \A k \in Kinds : CopyHeld(k)'
  BY DEF PostRender, settingVars, imageVars, CopyHeld, TypesHeld, Marking, SetterOf
<1>5. \A k \in Kinds : AppliedHeld(k)'
  BY DEF PostRender, settingVars, imageVars, AppliedHeld, CopyHeld, TypesHeld, Marking, SetterOf
<1>6. InternalHeld'
  BY DEF PostRender, settingVars, imageVars, InternalHeld, CopyHeld, TypesHeld, Marking,
     SetterOf
<1>7. DrawnHeld'
  BY DEF PostRender, imageVars, DrawnHeld, CountsHeld, TypesHeld
<1>8. QED
  BY <1>1, <1>2, <1>3, <1>4, <1>5, <1>6, <1>7

LEMMA WorkerCopiesKeeps ==
    ASSUME WorkerCopies, FrameInv
    PROVE  FrameInv'
<1> USE FrameConfigAssumption, FrameBoundsAssumption DEF FrameInv, Kinds
<1>1. TypesHeld'
  BY DEF WorkerCopies, settingVars, imageVars, TypesHeld, Images
<1>2. CountsHeld'
  BY DEF WorkerCopies, CountsHeld
<1>3. TakenHeld'
  BY DEF WorkerCopies, TakenHeld, TypesHeld
<1>4. \A k \in Kinds : CopyHeld(k)'
  BY DEF WorkerCopies, settingVars, imageVars, CopyHeld, TypesHeld, Marking, SetterOf
<1>5. \A k \in Kinds : AppliedHeld(k)'
  BY DEF WorkerCopies, settingVars, imageVars, AppliedHeld, CopyHeld, TypesHeld, Marking,
     SetterOf
<1>6. InternalHeld'
  BY DEF WorkerCopies, settingVars, imageVars, InternalHeld, CopyHeld, TypesHeld, Marking,
     SetterOf
<1>7. DrawnHeld'
  BY DEF WorkerCopies, imageVars, DrawnHeld, CountsHeld, TypesHeld
<1>8. QED
  BY <1>1, <1>2, <1>3, <1>4, <1>5, <1>6, <1>7

LEMMA WorkerWaitsKeeps ==
    ASSUME WorkerWaits, FrameInv
    PROVE  FrameInv'
<1> USE FrameConfigAssumption, FrameBoundsAssumption DEF FrameInv, Kinds
<1>1. TypesHeld'
  BY DEF WorkerWaits, settingVars, imageVars, TypesHeld, Images
<1>2. CountsHeld'
  BY DEF WorkerWaits, CountsHeld
<1>3. TakenHeld'
  BY DEF WorkerWaits, TakenHeld, TypesHeld
<1>4. \A k \in Kinds : CopyHeld(k)'
  BY DEF WorkerWaits, settingVars, imageVars, CopyHeld, TypesHeld, Marking, SetterOf
<1>5. \A k \in Kinds : AppliedHeld(k)'
  BY DEF WorkerWaits, settingVars, imageVars, AppliedHeld, CopyHeld, TypesHeld, Marking,
     SetterOf
<1>6. InternalHeld'
  BY DEF WorkerWaits, settingVars, imageVars, InternalHeld, CopyHeld, TypesHeld, Marking,
     SetterOf
<1>7. DrawnHeld'
  BY DEF WorkerWaits, imageVars, DrawnHeld, CountsHeld, TypesHeld
<1>8. QED
  BY <1>1, <1>2, <1>3, <1>4, <1>5, <1>6, <1>7

-----------------------------------------------------------------------------
(* The theorems.                                                               *)

LEMMA FrameInitInv == FrameInit => FrameInv
<1> SUFFICES ASSUME FrameInit PROVE FrameInv
  OBVIOUS
<1>1. Unchanged \in Images
  BY FrameBoundsAssumption DEF FrameInit, Unchanged, Images
<1>2. frSetter \in [Locks -> SetterType]
  BY DEF FrameInit, SetterType, NoSetter, Kinds
<1>3. frLeft \in 0..MaxAsks /\ frFails \in 0..MaxFails
  BY FrameBoundsAssumption DEF FrameInit
<1>4. TypesHeld
  BY <1>1, <1>2, <1>3 DEF FrameInit, TypesHeld
<1>5. CountsHeld /\ TakenHeld /\ InternalHeld /\ DrawnHeld
  BY DEF FrameInit, CountsHeld, TakenHeld, InternalHeld, DrawnHeld
<1>6. \A k \in Kinds : CopyHeld(k) /\ AppliedHeld(k)
  BY DEF FrameInit, CopyHeld, AppliedHeld
<1>7. QED
  BY <1>4, <1>5, <1>6 DEF FrameInv

LEMMA FrameStutterKeeps ==
    ASSUME FrameInv, UNCHANGED frVars
    PROVE  FrameInv'
<1>1. TypesHeld'
  BY DEF FrameInv, TypesHeld, Images, frVars
<1>2. CountsHeld' /\ TakenHeld' /\ DrawnHeld'
  BY DEF FrameInv, CountsHeld, TakenHeld, DrawnHeld, frVars
<1>3. InternalHeld' /\ \A k \in Kinds : CopyHeld(k)' /\ AppliedHeld(k)'
  BY DEF FrameInv, CopyHeld, AppliedHeld, InternalHeld, Marking, SetterOf, frVars
<1>4. QED
  BY <1>1, <1>2, <1>3 DEF FrameInv

LEMMA FrameNextInv == FrameInv /\ [FrameNext]_frVars => FrameInv'
<1> SUFFICES ASSUME FrameInv, [FrameNext]_frVars PROVE FrameInv'
  OBVIOUS
<1>1. CASE \E k \in Kinds : AskWrite(k)
  BY <1>1, AskWriteKeeps
<1>2. CASE FrameAsk
  BY <1>2, AskMarkKeeps, AskInvalidateKeeps DEF FrameAsk
<1>3. CASE FrameRender
  BY <1>3, TakeConfigKeeps, CopyConfigKeeps, TakeStateKeeps, CopyStateKeeps, HandleKeeps,
     DeriveInternalKeeps, PostPrepareKeeps, PreRenderKeeps, DrawFrameKeeps, PostRenderKeeps
     DEF FrameRender
<1>4. CASE FrameWorker
  BY <1>4, WorkerCopiesKeeps, WorkerWaitsKeeps DEF FrameWorker
<1>5. CASE UNCHANGED frVars
  BY <1>5, FrameStutterKeeps
<1>6. QED
  BY <1>1, <1>2, <1>3, <1>4, <1>5 DEF FrameNext

\* The inductive invariant holds of every behaviour, whatever the host and the
\* setters do.
THEOREM FrameInvariance == FrameSpec => []FrameInv
<1>1. FrameInit => FrameInv
  BY FrameInitInv
<1>2. FrameInv /\ [FrameNext]_frVars => FrameInv'
  BY FrameNextInv
<1>3. QED
  BY <1>1, <1>2, PTL DEF FrameSpec

\* Every variable keeps its type, and postRenderFrame() never takes back more
\* requests for frames than were counted.
THEOREM FrameTypes == FrameSpec => []FrameTypeOK
<1>1. FrameInv => FrameTypeOK
  <2>1. ASSUME TypesHeld PROVE Images \subseteq [Kinds -> 0..MaxAsks]
    BY <2>1, FrameBoundsAssumption DEF TypesHeld, Images
  <2>2. QED
    BY <2>1 DEF FrameInv, TypesHeld, CountsHeld, FrameTypeOK, SetterType
<1>2. QED
  BY <1>1, FrameInvariance, PTL

\* A setting whose setter has returned is applied, marked, or in the render
\* thread's hands, although the mask and the state are taken apart.
THEOREM ChangesAreKept == FrameSpec => []ChangeIsKept
<1>1. FrameInv => ChangeIsKept
  <2> SUFFICES ASSUME FrameInv, NEW k \in Kinds
               PROVE  \/ frHandled[k] = frAsked[k] \/ k \in frMask \cup frTaken
                      \/ frSetter[LockOf(k)] = [pc |-> "mark", kind |-> k]
    BY DEF ChangeIsKept
  <2>1. AppliedHeld(k) /\ TakenHeld
    BY DEF FrameInv
  <2>2. QED
    BY <2>1 DEF AppliedHeld, TakenHeld, Marking, SetterOf
<1>2. QED
  BY <1>1, FrameInvariance, PTL

\* When isIdle() says so between two frames and no setter is at work, the screen
\* shows what was asked for.
THEOREM IdleShowsSettings == FrameSpec => []IdleIsDrawn
<1>1. FrameInv => IdleIsDrawn
  <2> SUFFICES ASSUME FrameInv, FrameIdle, frPc = "outside", \A lock \in Locks : LockFree(lock)
               PROVE  frDrawn = frAsked
    BY DEF IdleIsDrawn
  <2>1. \A k \in Kinds : ~Marking(k)
    BY DEF Marking, SetterOf, Locks, LockFree, NoSetter
  <2>2. frInternal = frAsked
    BY <2>1 DEF FrameInv, InternalHeld, FrameIdle
  <2>3. frDrawn = frInternal
    BY DEF FrameInv, DrawnHeld, CountsHeld, FrameIdle
  <2>4. QED
    BY <2>2, <2>3
<1>2. QED
  BY <1>1, FrameInvariance, PTL
=============================================================================
