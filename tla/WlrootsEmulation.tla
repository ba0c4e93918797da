--------------------------- MODULE WlrootsEmulation ---------------------------
(***************************************************************************)
(* Emulation on wlroots compositors: a virtual pointer and keyboard for    *)
(* each handle.  The backend keeps count of the modifiers of a handle and  *)
(* reports them to the compositor with every change.                       *)
(*                                                                         *)
(* Requests are buffered and flushed without waiting.  The compositor      *)
(* (external) may leave the buffer full; while it does, events are         *)
(* discarded.  It takes requests in order, so what is buffered is taken to *)
(* have been done; a keyboard that is destroyed lets go of its keys.       *)
(***************************************************************************)
EXTENDS EmulationSink

VARIABLES
  input_for_client,  \* handles with a VirtualInput, each with its XMods
  told,              \* external: modifiers of a handle's keyboard, depressed and locked
  last_flush_failed

wlrVars == <<input_for_client, told, last_flush_failed>>

WlrootsInit ==
  /\ input_for_client = <<>>
  /\ told = <<>>
  /\ last_flush_failed = FALSE

PressedMasks == Masks \ {"Lock"}
PressedMask(k) == MaskOf(k) \cap PressedMasks
LockedMask(k) == MaskOf(k) \ PressedMasks
MaskPressed(ms) == ms \cap PressedMasks
MaskLocks(ms) == ms \ PressedMasks

\* update_by_key_event: a lock is toggled when its key is released.
UpdateByKeyEvent(ms, k, d) ==
  IF d THEN ms \cup PressedMask(k)
  ELSE ((ms \ PressedMask(k)) \ LockedMask(k)) \cup (LockedMask(k) \ ms)

\* Whether an event goes out: not if the last one filled the buffer and it is still
\* full.  An event of a handle without input would be passed over; none comes, since
\* InputEmulation creates the handle first.
Discards == last_flush_failed
Goes(h) == h \in DOMAIN input_for_client

\* The flush afterwards: done, the buffer is full, or the connection is broken.
Flush ==
  \/ last_flush_failed' \in BOOLEAN /\ Return
  \/ UNCHANGED last_flush_failed /\ Fail

\* "can't keep up, discarding event"
Discard ==
  /\ \E op \in {"key", "modifiers"} \cup PointerOps : InCall(op)
  /\ Discards
  /\ calls' = Tail(calls)
  /\ dropped' = (dropped \/ Release(Head(calls)))
  /\ UNCHANGED <<em_handles, pressed_keys, mouse_config, session, reported,
                 keys_down, posted, wlrVars>>

\* VirtualInput::consume_event of a key: the key, and the modifiers if it is one.
WlrKey ==
  /\ InCall("key") /\ Goes(Head(calls).handle)
  /\ LET c == Head(calls)
         ms == UpdateByKeyEvent(input_for_client[c.handle], c.key, c.down)
     IN /\ PostKey(c.handle, c.key, c.down)
        /\ input_for_client' = [input_for_client EXCEPT ![c.handle] = ms]
        /\ told' = IF MaskOf(c.key) = {} THEN told
                   ELSE [told EXCEPT ![c.handle] =
                           [depressed |-> MaskPressed(ms), locked |-> MaskLocks(ms)]]
  /\ Flush
  /\ UNCHANGED posted

\* Of modifiers: the report is passed on as it is.
WlrModifiers ==
  /\ InCall("modifiers") /\ Goes(Head(calls).handle)
  /\ LET c == Head(calls)
     IN /\ input_for_client' = [input_for_client EXCEPT ![c.handle] = c.depressed]
        /\ told' = [told EXCEPT ![c.handle] = [depressed |-> c.depressed, locked |-> {}]]
  /\ Flush
  /\ PostNothing

\* Of the pointer: the fixed point numbers of the protocol, in 256ths, are taken to be
\* exact; axis_discrete has the value in eighths as well as in steps.
WlrPointer ==
  /\ calls # <<>> /\ Goes(Head(calls).handle)
  /\ \/ InCall("button") /\ PostButton(Head(calls).button)
     \/ InCall("motion") /\ PostMotion(AskedMotion)
     \/ InCall("axis") /\ PostAxis(AskedAxis)
     \/ InCall("scroll") /\ PostScroll(AskedScroll)
  /\ Flush
  /\ UNCHANGED <<keys_down, input_for_client, told>>

\* add_client
WlrCreate ==
  /\ InCall("create")
  /\ LET h == Head(calls).handle
         with == DOMAIN input_for_client \cup {h}
     IN /\ input_for_client' = [x \in with |-> IF x = h THEN {} ELSE input_for_client[x]]
        /\ told' = [x \in with |-> IF x = h THEN [depressed |-> {}, locked |-> {}] ELSE told[x]]
  /\ Return /\ PostNothing
  /\ UNCHANGED last_flush_failed

\* destroy_client
WlrDestroy ==
  /\ InCall("destroy")
  /\ LET h == Head(calls).handle
         rest == DOMAIN input_for_client \ {h}
     IN /\ input_for_client' = Restrict(input_for_client, rest)
        /\ told' = Restrict(told, rest)
        /\ keys_down' = {kk \in keys_down : kk[1] # h}
  /\ Return
  /\ UNCHANGED <<posted, last_flush_failed>>

WlrTerminate ==
  /\ InCall("terminate")
  /\ Return /\ PostNothing
  /\ UNCHANGED wlrVars

WlrootsEmulationNext ==
  \/ Discard \/ WlrKey \/ WlrModifiers \/ WlrPointer
  \/ WlrCreate \/ WlrDestroy \/ WlrTerminate
==============================================================================
