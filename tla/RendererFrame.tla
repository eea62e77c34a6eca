----------------------------- MODULE RendererFrame -----------------------------
(* How a setting reaches the screen: the setters of MapRenderer, the render    *)
(* thread's prepareFrame() and renderFrame(), and the thread of                *)
(* MapRendererResourcesManager that is told the active zone.                   *)
(*                                                                             *)
(* A setting is abstracted to the number of its last change. The host renders  *)
(* a frame when frameUpdateRequestCallback asked for one, or until isIdle().   *)
(* Failures that the code answers by trying again share one bound.             *)
EXTENDS Naturals

CONSTANTS
    StateKinds, \* kinds of MapRendererStateChange
    Config,     \* MapRendererConfiguration, a setting with a lock of its own
    MaxAsks,    \* bound on changes of settings, the renderer's own included
    MaxFails    \* bound on failures and on changes of the level of detail

ASSUME FrameConfigAssumption == Config \notin StateKinds
ASSUME FrameBoundsAssumption == MaxAsks \in Nat /\ MaxFails \in Nat

VARIABLES
    frAsked,    \* [Kinds -> change number] _requestedState, _requestedConfiguration
    frSetter,   \* [Locks -> the setter that holds it, and its next step]
    frMask,     \* _requestedStateUpdatedMask, _currentConfigurationInvalidatedMask
    frCount,    \* _frameInvalidatesCounter
    frWanted,   \* the host was asked for a frame and has not started it
    frPc,       \* the render thread's next step
    frTaken,    \* the changes it took from the masks
    frFresh,    \* isNew: the internal state is that of the current state
    frCaptured, \* _frameInvalidatesToBeProcessed
    frCurrent,  \* [Kinds -> change number] _currentState, _currentConfiguration
    frInternal, \* [Kinds -> change number] what the internal state was derived from
    frHandled,  \* [Kinds -> change number] what was bound or applied for each change
    frDrawn,    \* [Kinds -> change number] on the screen
    frLeft,     \* changes of settings left
    frFails,    \* failures left
    frZone,     \* the active zone given to the worker thread
    frWorker,   \* the worker thread: "waiting", "woken" or "busy"
    frSeen      \* the zone it copied last

settingVars == <<frAsked, frSetter, frLeft>>
imageVars == <<frCurrent, frInternal, frHandled, frDrawn>>
zoneVars == <<frZone, frWorker, frSeen>>
frVars == <<frAsked, frSetter, frMask, frCount, frWanted, frPc, frTaken, frFresh,
            frCaptured, frCurrent, frInternal, frHandled, frDrawn, frLeft, frFails,
            frZone, frWorker, frSeen>>

Kinds == StateKinds \cup {Config}
LockOf(k) == IF k = Config THEN "configuration" ELSE "state"
Locks == {LockOf(k) : k \in Kinds}
NoSetter == [pc |-> "none", kind |-> Config]
LockFree(lock) == frSetter[lock] = NoSetter
Unchanged == [k \in Kinds |-> 0]

FrameInit ==
    /\ frAsked = Unchanged /\ frSetter = [lock \in Locks |-> NoSetter]
    /\ frMask = {} /\ frCount = 0 /\ frWanted = FALSE
    /\ frPc = "outside" /\ frTaken = {} /\ frFresh = FALSE /\ frCaptured = 0
    /\ frCurrent = Unchanged /\ frInternal = Unchanged /\ frHandled = Unchanged /\ frDrawn = Unchanged
    /\ frLeft = MaxAsks /\ frFails = MaxFails
    /\ frZone = Unchanged /\ frWorker = "waiting" /\ frSeen = Unchanged

\* invalidateFrame()
InvalidateFrame == frCount' = frCount + 1 /\ frWanted' = TRUE

-----------------------------------------------------------------------------
(* Setters: under their lock they change the request, mark it, ask for a frame.*)

AskWrite(k) ==
    /\ frLeft > 0 /\ LockFree(LockOf(k))
    /\ frAsked' = [frAsked EXCEPT ![k] = @ + 1]
    /\ frSetter' = [frSetter EXCEPT ![LockOf(k)] = [pc |-> "mark", kind |-> k]]
    /\ frLeft' = frLeft - 1
    /\ UNCHANGED <<frMask, frCount, frWanted, frPc, frTaken, frFresh, frCaptured, frFails,
                   imageVars, zoneVars>>

\* A faulty variant: the bit is toggled, as if it were never set already.
AskMarkToggles(lock) ==
    /\ frSetter[lock].pc = "mark"
    /\ frMask' = LET k == frSetter[lock].kind
                 IN IF k \in frMask THEN frMask \ {k} ELSE frMask \cup {k}
    /\ frSetter' = [frSetter EXCEPT ![lock].pc = "invalidate"]
    /\ UNCHANGED <<frAsked, frLeft, frCount, frWanted, frPc, frTaken, frFresh, frCaptured,
                   frFails, imageVars, zoneVars>>
AskMark(lock) ==
    /\ frSetter[lock].pc = "mark"
    /\ frMask' = frMask \cup {frSetter[lock].kind}
    /\ frSetter' = [frSetter EXCEPT ![lock].pc = "invalidate"]
    /\ UNCHANGED <<frAsked, frLeft, frCount, frWanted, frPc, frTaken, frFresh, frCaptured,
                   frFails, imageVars, zoneVars>>

AskInvalidate(lock) ==
    /\ frSetter[lock].pc = "invalidate"
    /\ InvalidateFrame
    /\ frSetter' = [frSetter EXCEPT ![lock] = NoSetter]
    /\ UNCHANGED <<frAsked, frLeft, frMask, frPc, frTaken, frFresh, frCaptured, frFails,
                   imageVars, zoneVars>>

-----------------------------------------------------------------------------
(* The render thread.                                                          *)

\* isIdle(), as far as settings and frames go
FrameIdle == frMask = {} /\ frCount = 0

\* prePrepareFrame(): the configuration's mask is taken, then it is copied.
TakeConfig ==
    /\ frPc = "outside" /\ (frWanted \/ ~FrameIdle)
    /\ frWanted' = FALSE
    /\ frTaken' = frMask \cap {Config}
    /\ frMask' = frMask \ {Config}
    /\ frPc' = IF Config \in frMask THEN "config" ELSE "state"
    /\ frFresh' = FALSE
    /\ UNCHANGED <<settingVars, frCount, frCaptured, frFails, imageVars, zoneVars>>

CopyConfig ==
    /\ frPc = "config" /\ LockFree("configuration")
    /\ frCurrent' = [frCurrent EXCEPT ![Config] = frAsked[Config]]
    /\ frHandled' = [frHandled EXCEPT ![Config] = frAsked[Config]]
    /\ frPc' = "state"
    /\ UNCHANGED <<settingVars, frMask, frCount, frWanted, frTaken, frFresh, frCaptured,
                   frInternal, frDrawn, frFails, zoneVars>>

\* The mask of state changes is taken before the state's mutex.
TakeState ==
    /\ frPc = "state"
    /\ frTaken' = frTaken \cup (frMask \cap StateKinds)
    /\ frMask' = frMask \ StateKinds
    /\ frPc' = CASE frMask \cap StateKinds # {} -> "copy"
                 [] frMask \cap StateKinds = {} /\ frTaken # {} -> "internal"
                 [] OTHER -> "prepared"
    /\ UNCHANGED <<settingVars, frCount, frWanted, frFresh, frCaptured, frFails, imageVars,
                   zoneVars>>

Copied == [k \in Kinds |-> IF k = Config THEN frCurrent[k] ELSE frAsked[k]]

\* The internal state may not follow from this state, and a camera too close to
\* the ground makes the renderer change the request itself.
CopyState ==
    /\ frPc = "copy" /\ LockFree("state")
    /\ frPc' = "handle"
    /\ \/ /\ frFresh' \in BOOLEAN
          /\ frCurrent' = Copied
          /\ frInternal' = IF frFresh' THEN Copied ELSE frInternal
          /\ UNCHANGED <<frAsked, frMask, frLeft>>
       \/ /\ frLeft > 0 /\ frLeft' = frLeft - 1
          /\ \E k \in StateKinds :
                /\ frAsked' = [frAsked EXCEPT ![k] = @ + 1]
                /\ frMask' = frMask \cup {k}
                /\ frCurrent' = [Copied EXCEPT ![k] = frAsked[k] + 1]
          /\ frInternal' = Copied
          /\ UNCHANGED frFresh
    /\ UNCHANGED <<frSetter, frCount, frWanted, frTaken, frCaptured, frHandled, frDrawn,
                   frFails, zoneVars>>

\* handleStateChange(): it fails while the storages of resources are in use.
\* A faulty variant: a failed change stays marked, but no frame is asked for.
HandleForgetsFrame ==
    /\ frPc = "handle"
    /\ \/ /\ frHandled' = [k \in Kinds |-> IF k \in frTaken \ {Config} THEN frCurrent[k]
                                           ELSE frHandled[k]]
          /\ frPc' = "internal"
          /\ UNCHANGED <<frMask, frCount, frWanted, frTaken, frFails>>
       \/ /\ frFails > 0 /\ frFails' = frFails - 1
          /\ frMask' = frMask \cup (frTaken \ {Config})
          /\ frPc' = "outside" /\ frTaken' = {}
          /\ UNCHANGED <<frCount, frWanted, frHandled>>
    /\ UNCHANGED <<settingVars, frFresh, frCaptured, frCurrent, frInternal, frDrawn, zoneVars>>
Handle ==
    /\ frPc = "handle"
    /\ \/ /\ frHandled' = [k \in Kinds |-> IF k \in frTaken \ {Config} THEN frCurrent[k]
                                           ELSE frHandled[k]]
          /\ frPc' = "internal"
          /\ UNCHANGED <<frMask, frCount, frWanted, frTaken, frFails>>
       \/ /\ frFails > 0 /\ frFails' = frFails - 1
          /\ frMask' = frMask \cup (frTaken \ {Config})
          /\ InvalidateFrame
          /\ frPc' = "outside" /\ frTaken' = {}
          /\ UNCHANGED frHandled
    /\ UNCHANGED <<settingVars, frFresh, frCaptured, frCurrent, frInternal, frDrawn, zoneVars>>

\* The internal state is derived; the level of detail may change with it, and
\* what could not be derived goes back to the masks.
\* A faulty variant: only the changes of the configuration go back.
DeriveInternalForgets ==
    /\ frPc = "internal"
    /\ InvalidateFrame
    /\ \/ /\ frPc' = "prepared" /\ frInternal' = frCurrent
          /\ UNCHANGED <<frMask, frTaken, frFails>>
       \/ /\ frFails > 0 /\ frFails' = frFails - 1
          /\ \/ /\ ~frFresh /\ frPc' = "outside" /\ frTaken' = {} /\ UNCHANGED frInternal
                /\ frMask' = frMask \cup (frTaken \cap {Config})
             \/ /\ frPc' = "prepared" /\ frInternal' = frCurrent /\ UNCHANGED frTaken
                /\ \E k \in StateKinds : frMask' = frMask \cup {k}
    /\ frFresh' = TRUE
    /\ UNCHANGED <<settingVars, frCaptured, frCurrent, frHandled, frDrawn, zoneVars>>
DeriveInternal ==
    /\ frPc = "internal"
    /\ InvalidateFrame
    /\ \/ /\ frPc' = "prepared" /\ frInternal' = frCurrent
          /\ UNCHANGED <<frMask, frTaken, frFails>>
       \/ /\ frFails > 0 /\ frFails' = frFails - 1
          /\ \/ /\ ~frFresh /\ frPc' = "outside" /\ frTaken' = {} /\ UNCHANGED frInternal
                /\ frMask' = frMask \cup frTaken
             \/ /\ frPc' = "prepared" /\ frInternal' = frCurrent /\ UNCHANGED frTaken
                /\ \E k \in StateKinds : frMask' = frMask \cup {k}
    /\ frFresh' = TRUE
    /\ UNCHANGED <<settingVars, frCaptured, frCurrent, frHandled, frDrawn, zoneVars>>

\* postPrepareFrame(): the worker is told the zone, and woken if it waits.
PostPrepare ==
    /\ frPc = "prepared"
    /\ frZone' = frInternal
    /\ frWorker' = IF frWorker = "waiting" THEN "woken" ELSE frWorker
    /\ frTaken' = {}
    /\ frPc' = "render"
    /\ UNCHANGED <<settingVars, frMask, frCount, frWanted, frFresh, frCaptured, frFails,
                   imageVars, frSeen>>

\* preRenderFrame()
PreRender ==
    /\ frPc = "render"
    /\ frCaptured' = frCount
    /\ frPc' = "draw"
    /\ UNCHANGED <<settingVars, frMask, frCount, frWanted, frTaken, frFresh, frFails,
                   imageVars, zoneVars>>

\* doRenderFrame(): a frame that could not be drawn is asked for again.
DrawFrame ==
    /\ frPc = "draw"
    /\ \/ frDrawn' = frInternal /\ frPc' = "drawn" /\ UNCHANGED <<frCount, frWanted, frFails>>
       \/ /\ frFails > 0 /\ frFails' = frFails - 1
          /\ InvalidateFrame /\ frPc' = "outside" /\ UNCHANGED frDrawn
    /\ UNCHANGED <<settingVars, frMask, frTaken, frFresh, frCaptured, frCurrent, frInternal,
                   frHandled, zoneVars>>

\* postRenderFrame()
\* A faulty variant: the number of requests seen is kept for the next frame.
PostRenderKeepsCaptured ==
    /\ frPc = "drawn"
    /\ frCount' = frCount - frCaptured
    /\ frPc' = "outside"
    /\ UNCHANGED <<settingVars, frMask, frWanted, frTaken, frFresh, frCaptured, frFails,
                   imageVars, zoneVars>>
PostRender ==
    /\ frPc = "drawn"
    /\ frCount' = frCount - frCaptured
    /\ frCaptured' = 0
    /\ frPc' = "outside"
    /\ UNCHANGED <<settingVars, frMask, frWanted, frTaken, frFresh, frFails, imageVars,
                   zoneVars>>

-----------------------------------------------------------------------------
(* workerThreadProcedure() of the resources manager.                           *)

WorkerCopies ==
    /\ frWorker = "woken"
    /\ frSeen' = frZone
    /\ frWorker' = "busy"
    /\ UNCHANGED <<settingVars, frMask, frCount, frWanted, frPc, frTaken, frFresh,
                   frCaptured, frFails, imageVars, frZone>>

\* updateResources() is over, and the thread waits for the next wake-up.
WorkerWaits ==
    /\ frWorker = "busy"
    /\ frWorker' = "waiting"
    /\ UNCHANGED <<settingVars, frMask, frCount, frWanted, frPc, frTaken, frFresh,
                   frCaptured, frFails, imageVars, frZone, frSeen>>

-----------------------------------------------------------------------------
FrameRender == \/ TakeConfig \/ CopyConfig \/ TakeState \/ CopyState \/ Handle
               \/ DeriveInternal \/ PostPrepare \/ PreRender \/ DrawFrame \/ PostRender
FrameAsk == \E lock \in Locks : AskMark(lock) \/ AskInvalidate(lock)
FrameWorker == WorkerCopies \/ WorkerWaits
FrameNext == (\E k \in Kinds : AskWrite(k)) \/ FrameAsk \/ FrameRender \/ FrameWorker

\* A host renders a frame it was asked for and finishes the frame it began.
FrameFairness == /\ WF_frVars(FrameRender /\ (frPc = "outside" => frWanted))
                 /\ WF_frVars(FrameAsk) /\ WF_frVars(FrameWorker)
FrameSpec == FrameInit /\ [][FrameNext]_frVars /\ FrameFairness

-----------------------------------------------------------------------------
\* Types, and that no more requests for frames are taken back than were counted.
FrameTypeOK ==
    /\ \A image \in {frAsked, frCurrent, frInternal, frHandled, frDrawn, frZone, frSeen} :
          image \in [Kinds -> 0..MaxAsks]
    /\ frSetter \in [Locks -> [pc : {"none", "mark", "invalidate"}, kind : Kinds]]
    /\ frMask \subseteq Kinds /\ frTaken \subseteq Kinds
    /\ frCount \in Nat /\ frCaptured \in Nat /\ frCaptured <= frCount
    /\ frWanted \in BOOLEAN /\ frFresh \in BOOLEAN
    /\ frPc \in {"outside", "config", "state", "copy", "handle", "internal", "prepared",
                 "render", "draw", "drawn"}
    /\ frLeft \in 0..MaxAsks /\ frFails \in 0..MaxFails
    /\ frWorker \in {"waiting", "woken", "busy"}

\* The mask of requested changes is taken before the requested state is copied,
\* each under protection of its own: a setting asked for by a setter that has
\* returned is applied, or its change is still in the mask or in the render
\* thread's hands.
ChangeIsKept ==
    \A k \in Kinds :
        \/ frHandled[k] = frAsked[k]
        \/ k \in frMask \cup frTaken
        \/ frSetter[LockOf(k)] = [pc |-> "mark", kind |-> k]

\* isIdle() between two frames, with no setter at work, means that what was
\* asked for is on the screen.
IdleIsDrawn ==
    FrameIdle /\ frPc = "outside" /\ (\A lock \in Locks : LockFree(lock)) => frDrawn = frAsked

\* A host that renders only the frames it is asked for ends up showing the last
\* settings, whatever failed on the way.
DrawnAtLast == <>[](frDrawn = frAsked)

\* The worker thread takes up the zone of the last prepared frame.
ZoneReachesWorker == <>[](frSeen = frZone)
=============================================================================
