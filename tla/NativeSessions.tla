--------------------------- MODULE NativeSessions ---------------------------
(***************************************************************************)
(* The registry of native sessions behind the mobile interface.  An         *)
(* application begins a session, has the issuer answer its work, completes  *)
(* the handshake, takes local packets and closes the handle, from any       *)
(* thread.  The issuer timer, a failing completion and the packet duplex    *)
(* close sessions too.                                                      *)
(*                                                                         *)
(* Every critical section of the registry's and the session's mutex is one  *)
(* step.  A close has four: the entry leaves the registry, the session is   *)
(* marked, its context is cancelled, and its queue is wiped (under          *)
(* localPacketMu) before what it held is released.                          *)
(***************************************************************************)
EXTENDS Integers, Sequences, FiniteSets, SequencesExt

CONSTANTS
    Handles,                        \* handles in the order they are given out
    maximumNativeSessions,
    maximumNativeLocalPacketQueue,
    Packets                         \* bound: Packets[h], what h's duplex delivers; a
                                    \* handle with none is only begun and closed

VARIABLES
    registered,     \* handles in r.sessions
    terminals,      \* handles of r.terminalOrder
    session,        \* session[h]: the nativeSession and what it owns
    completer,      \* completer[h]: the complete call
    closers,        \* closers[h]: calls that took h out and are to close it
    duplex,         \* duplex[h]: the goroutine of runNativeDuplex
    packetMu,       \* packetMu[h]: the duplex holds localPacketMu
    consumer        \* consumer[h]: the nextLocalPacket call

vars == <<registered, terminals, session, completer, closers, duplex, packetMu, consumer>>

\* handshake and established are what exists, held what the session points to.
Fresh == [stage |-> "none", closed |-> FALSE, completing |-> FALSE, cancelled |-> FALSE,
          handshake |-> "none", established |-> "none", held |-> {}, timer |-> "off",
          queue |-> 0, sent |-> 0, error |-> "none", proof |-> 0, closing |-> "no"]

NativeInit ==
    /\ registered = {} /\ terminals = <<>>
    /\ session = [h \in Handles |-> Fresh]
    /\ completer = [h \in Handles |-> "idle"]
    /\ closers = [h \in Handles |-> {}]
    /\ duplex = [h \in Handles |-> "off"]
    /\ packetMu = [h \in Handles |-> FALSE]
    /\ consumer = [h \in Handles |-> "idle"]
-----------------------------------------------------------------------------
(* begin                                                                   *)

\* r.start performs the handshake up to the proof request.
begin(h) ==
    /\ session[h].stage = "none"
    /\ \A g \in Handles : g < h => session[g].stage # "none"
    /\ session' = [session EXCEPT ![h].stage = "starting", ![h].handshake = "open"]
    /\ UNCHANGED <<registered, terminals, completer, closers, duplex, packetMu, consumer>>

\* The start failed or timed out, or no issuer work can be made: nothing stays.
BeginFails(h) ==
    /\ session[h].stage = "starting"
    /\ session' = [session EXCEPT ![h].stage = "failed", ![h].handshake = "closed",
                                  ![h].cancelled = TRUE]
    /\ UNCHANGED <<registered, terminals, completer, closers, duplex, packetMu, consumer>>

\* The session is entered unless the registry is full; then it is closed.
Register(h) ==
    /\ session[h].stage = "starting"
    /\ IF Cardinality(registered) >= maximumNativeSessions
       THEN /\ session' = [session EXCEPT ![h].stage = "refused", ![h].held = {"handshake"}]
            /\ closers' = [closers EXCEPT ![h] = {"begin"}]
            /\ UNCHANGED registered
       ELSE /\ registered' = registered \cup {h}
            /\ session' = [session EXCEPT ![h].stage = "begun", ![h].held = {"handshake"},
                                          ![h].timer = "armed"]
            /\ UNCHANGED closers
    /\ UNCHANGED <<terminals, completer, duplex, packetMu, consumer>>
-----------------------------------------------------------------------------
(* complete, with the issuer's answer to the work of handle g.             *)

lookup(h) == h \in registered

\* The call finds the session and then claims it.
CompleteLooksUp(h) ==
    /\ completer[h] = "idle" /\ lookup(h) /\ Packets[h] > 0
    /\ completer' = [completer EXCEPT ![h] = "found"]
    /\ UNCHANGED <<registered, terminals, session, closers, duplex, packetMu, consumer>>

Claimable(h) ==
    /\ ~session[h].closed /\ ~session[h].completing
    /\ "handshake" \in session[h].held /\ "established" \notin session[h].held

\* The answer is a proof for this session's admission context, unexpired and
\* verified against the issuer's metadata.
proofsForIssuerResponse(h, g) == g = h

CompleteClaims(h, g) ==
    /\ completer[h] = "found"
    /\ IF Claimable(h)
       THEN /\ session' = [session EXCEPT ![h].completing = TRUE,
                               ![h].proof = IF proofsForIssuerResponse(h, g) THEN g ELSE 0]
            /\ completer' = [completer EXCEPT ![h] = "claimed"]
       ELSE completer' = [completer EXCEPT ![h] = "idle"] /\ UNCHANGED session
    /\ UNCHANGED <<registered, terminals, closers, duplex, packetMu, consumer>>

\* deferred.Complete: it fails for want of a proof, when the context has ended,
\* and for reasons of its own; it succeeds only if the handshake is still open.
CompleteHandshake(h) ==
    /\ completer[h] = "claimed"
    /\ \/ /\ session[h].proof # 0 /\ session[h].handshake = "open" /\ ~session[h].cancelled
          /\ session' = [session EXCEPT ![h].handshake = "used", ![h].established = "open"]
          /\ completer' = [completer EXCEPT ![h] = "established"]
       \/ /\ completer' = [completer EXCEPT ![h] = "failed"]
          /\ UNCHANGED session
    /\ UNCHANGED <<registered, terminals, closers, duplex, packetMu, consumer>>

\* Mutant: the session is not looked at again.
CommitBlindly(h) ==
    /\ completer[h] = "established"
    /\ session' = [session EXCEPT ![h].completing = FALSE, ![h].held = {"established"},
                       ![h].timer = IF @ = "armed" THEN "off" ELSE @]
    /\ completer' = [completer EXCEPT ![h] = "done"]
    /\ duplex' = [duplex EXCEPT ![h] = "running"]
    /\ UNCHANGED <<registered, terminals, closers, packetMu, consumer>>
\* A session closed meanwhile gets nothing: what was established is closed.
CompleteCommits(h) ==
    /\ completer[h] = "established"
    /\ IF session[h].closed
       THEN /\ session' = [session EXCEPT ![h].completing = FALSE, ![h].established = "closed"]
            /\ UNCHANGED duplex
       ELSE /\ session' = [session EXCEPT ![h].completing = FALSE, ![h].held = {"established"},
                               ![h].timer = IF @ = "armed" THEN "off" ELSE @]
            /\ duplex' = [duplex EXCEPT ![h] = "running"]
    /\ completer' = [completer EXCEPT ![h] = "done"]
    /\ UNCHANGED <<registered, terminals, closers, packetMu, consumer>>

\* r.close(handle) of a failed completion, which the application may have closed.
CompleteFails(h) ==
    /\ completer[h] = "failed"
    /\ session' = [session EXCEPT ![h].completing = FALSE]
    /\ completer' = [completer EXCEPT ![h] = "done"]
    /\ IF ~session[h].closed /\ h \in registered
       THEN /\ registered' = registered \ {h}
            /\ closers' = [closers EXCEPT ![h] = @ \cup {"complete"}]
       ELSE UNCHANGED <<registered, closers>>
    /\ UNCHANGED <<terminals, duplex, packetMu, consumer>>
-----------------------------------------------------------------------------
(* Closing.                                                                *)

close(h) ==
    /\ h \in registered
    /\ registered' = registered \ {h}
    /\ closers' = [closers EXCEPT ![h] = @ \cup {"application"}]
    /\ UNCHANGED <<terminals, session, completer, duplex, packetMu, consumer>>

IssuerTimerFires(h) ==
    /\ session[h].timer = "armed"
    /\ session' = [session EXCEPT ![h].timer = "fired"]
    /\ UNCHANGED <<registered, terminals, completer, closers, duplex, packetMu, consumer>>

expire(h) ==
    /\ session[h].timer = "fired"
    /\ session' = [session EXCEPT ![h].timer = "off"]
    /\ IF h \in registered
       THEN /\ registered' = registered \ {h}
            /\ closers' = [closers EXCEPT ![h] = @ \cup {"timer"}]
       ELSE UNCHANGED <<registered, closers>>
    /\ UNCHANGED <<terminals, completer, duplex, packetMu, consumer>>

\* nativeSession.close: the first call marks the session, the others return.
MarkClosed(h, c) ==
    /\ c \in closers[h]
    /\ closers' = [closers EXCEPT ![h] = @ \ {c}]
    /\ IF session[h].closed
       THEN UNCHANGED session
       ELSE session' = [session EXCEPT ![h].closed = TRUE, ![h].closing = "marked",
                                       ![h].timer = IF @ = "armed" THEN "off" ELSE @]
    /\ UNCHANGED <<registered, terminals, completer, duplex, packetMu, consumer>>

CancelContext(h) ==
    /\ session[h].closing = "marked"
    /\ session' = [session EXCEPT ![h].closing = "cancelled", ![h].cancelled = TRUE]
    /\ UNCHANGED <<registered, terminals, completer, closers, duplex, packetMu, consumer>>

\* zeroNativeLocalPacketQueue, under localPacketMu.
WipeQueue(h) ==
    /\ session[h].closing = "cancelled" /\ ~packetMu[h]
    /\ session' = [session EXCEPT ![h].closing = "wiped", ![h].queue = 0]
    /\ UNCHANGED <<registered, terminals, completer, closers, duplex, packetMu, consumer>>

\* adapter.Close, handshake.Close, established.Close.
Release(h) ==
    /\ session[h].closing = "wiped"
    /\ session' = [session EXCEPT ![h].closing = "released", ![h].held = {},
           ![h].handshake = IF "handshake" \in session[h].held /\ @ = "open" THEN "closed" ELSE @,
           ![h].established = IF "established" \in session[h].held THEN "closed" ELSE @]
    /\ UNCHANGED <<registered, terminals, completer, closers, duplex, packetMu, consumer>>
-----------------------------------------------------------------------------
(* The duplex and the consumer of its packets.                             *)

\* A frame block yields a local packet; enqueueLocalPacket takes localPacketMu
\* and looks at the session.
EnqueueBegins(h) ==
    /\ duplex[h] = "running" /\ session[h].sent < Packets[h]
    /\ session[h].established = "open" /\ ~packetMu[h]
    /\ session' = [session EXCEPT ![h].sent = @ + 1]
    /\ duplex' = [duplex EXCEPT ![h] = IF session[h].closed THEN "stopped" ELSE "enqueuing"]
    /\ packetMu' = [packetMu EXCEPT ![h] = ~session[h].closed]
    /\ UNCHANGED <<registered, terminals, completer, closers, consumer>>

enqueueLocalPacket(h) ==
    /\ duplex[h] = "enqueuing"
    /\ \/ /\ session[h].queue < maximumNativeLocalPacketQueue
          /\ session' = [session EXCEPT ![h].queue = @ + 1]
          /\ duplex' = [duplex EXCEPT ![h] = "running"]
       \/ /\ session[h].cancelled
          /\ duplex' = [duplex EXCEPT ![h] = "stopped"]
          /\ UNCHANGED session
    /\ packetMu' = [packetMu EXCEPT ![h] = FALSE]
    /\ UNCHANGED <<registered, terminals, completer, closers, consumer>>

\* RunPacketDuplex returns: the carrier failed, or the context or the session
\* ended.
DuplexStops(h) ==
    /\ duplex[h] = "running"
    /\ duplex' = [duplex EXCEPT ![h] = "stopped"]
    /\ UNCHANGED <<registered, terminals, session, completer, closers, packetMu, consumer>>

\* finishDuplex: the error is noted before the context ends.
finishDuplex(h) ==
    /\ duplex[h] = "stopped"
    /\ duplex' = [duplex EXCEPT ![h] = "finishing"]
    /\ session' = IF session[h].closed THEN session
                  ELSE [session EXCEPT ![h].error = "pump"]
    /\ UNCHANGED <<registered, terminals, completer, closers, packetMu, consumer>>

FinishCancels(h) ==
    /\ duplex[h] = "finishing"
    /\ duplex' = [duplex EXCEPT ![h] = "cancelled"]
    /\ session' = IF session[h].error = "pump"
                  THEN [session EXCEPT ![h].cancelled = TRUE, ![h].established = "closed"]
                  ELSE session
    /\ UNCHANGED <<registered, terminals, completer, closers, packetMu, consumer>>

\* The last maximumNativeSessions handles that ended on their own.
rememberTerminalLocked(h) ==
    Append(IF Len(terminals) = maximumNativeSessions THEN Tail(terminals) ELSE terminals, h)

finishNativeDuplex(h) ==
    /\ duplex[h] = "cancelled"
    /\ duplex' = [duplex EXCEPT ![h] = "ended"]
    /\ closers' = [closers EXCEPT ![h] = @ \cup {"duplex"}]
    /\ IF h \in registered
       THEN registered' = registered \ {h} /\ terminals' = rememberTerminalLocked(h)
       ELSE UNCHANGED <<registered, terminals>>
    /\ UNCHANGED <<session, completer, packetMu, consumer>>

\* nextLocalPacket: lookup (a handle that is gone returns at once, with the error
\* remembered for it), then the session, then the wait.
ConsumerLooksUp(h) ==
    /\ consumer[h] = "idle" /\ lookup(h) /\ Packets[h] > 0
    /\ consumer' = [consumer EXCEPT ![h] = "found"]
    /\ UNCHANGED <<registered, terminals, session, completer, closers, duplex, packetMu>>

ConsumerEnters(h) ==
    /\ consumer[h] = "found"
    /\ consumer' = [consumer EXCEPT ![h] =
           IF session[h].closed \/ "established" \notin session[h].held THEN "idle" ELSE "waiting"]
    /\ UNCHANGED <<registered, terminals, session, completer, closers, duplex, packetMu>>

ConsumerTakes(h) ==
    /\ consumer[h] = "waiting" /\ session[h].queue > 0
    /\ session' = [session EXCEPT ![h].queue = @ - 1]
    /\ consumer' = [consumer EXCEPT ![h] = "idle"]
    /\ UNCHANGED <<registered, terminals, completer, closers, duplex, packetMu>>

\* localPacketTerminationError.
ConsumerLearns(h) ==
    /\ consumer[h] = "waiting" /\ session[h].queue = 0 /\ session[h].cancelled
    /\ consumer' = [consumer EXCEPT ![h] = "idle"]
    /\ UNCHANGED <<registered, terminals, session, completer, closers, duplex, packetMu>>
-----------------------------------------------------------------------------
Closing(h) == (\E c \in closers[h] : MarkClosed(h, c)) \/ CancelContext(h)
              \/ WipeQueue(h) \/ Release(h)
Completing(h) == CompleteHandshake(h) \/ CompleteCommits(h) \/ CompleteFails(h)
Finishing(h) == finishDuplex(h) \/ FinishCancels(h) \/ finishNativeDuplex(h)

NativeNext ==
    \E h \in Handles :
        \/ begin(h) \/ BeginFails(h) \/ Register(h)
        \/ CompleteLooksUp(h) \/ \E g \in Handles : CompleteClaims(h, g)
        \/ Completing(h)
        \/ close(h) \/ IssuerTimerFires(h) \/ expire(h) \/ Closing(h)
        \/ EnqueueBegins(h) \/ enqueueLocalPacket(h) \/ DuplexStops(h) \/ Finishing(h)
        \/ ConsumerLooksUp(h) \/ ConsumerEnters(h) \/ ConsumerTakes(h) \/ ConsumerLearns(h)

NativeSpec == NativeInit /\ [][NativeNext]_vars
-----------------------------------------------------------------------------
(* Properties.                                                             *)

Busy(h) ==
    \/ session[h].stage = "starting"
    \/ completer[h] \in {"claimed", "established", "failed"}
    \/ closers[h] # {}
    \/ session[h].closing \in {"marked", "cancelled", "wiped"}
    \/ duplex[h] \notin {"off", "ended"}

\* Whatever happens when, a handshake or a session that is open can be reached
\* through the registry or is in the hands of a call that closes it or enters it
\* (begin's limit, complete's second look at closed, finishNativeDuplex).
NothingOrphaned ==
    \A h \in Handles :
        "open" \in {session[h].handshake, session[h].established} =>
            h \in registered \/ Busy(h)
=============================================================================
