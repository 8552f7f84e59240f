------------------------------ MODULE WssLink ------------------------------
(***************************************************************************)
(* What a connect over WSS comes to, and why: WssTransport::connect_locked *)
(* and its reader, connect_kk_then_xx, the verdicts of ConnectionControl   *)
(* and the handshake of NoiseChannel (src/transport.rs), with              *)
(* connect_for_session and settled (src/session.rs), which report it.      *)
(*                                                                         *)
(* One transport connects again and again: that attempts exclude each      *)
(* other, and that a cleanup keeps to its own attempt, is Connection.  The *)
(* reader of a link is a task of its own and outlives an attempt that is   *)
(* cut off.  The hub is external: it answers, closes with some code, or    *)
(* drops the link, and refuses only for one of the reasons below.          *)
(***************************************************************************)
EXTENDS Integers

CONSTANTS
  MaxAttempts   \* bound: connect_attempt calls

WssLinkAssumption == MaxAttempts \in Nat

Attempts == 0 .. MaxAttempts

VARIABLES
  \* what is the case: is the password right, is the hub's key the pinned
  \* one, does the hub know this client's key and its access key, and the PSK
  \* cached for the hub; and does every caller wait for its connect to end
  password, pin, known, admitted, cache, patient,
  \* the connect: its step, its attempt, the error it is about to return and
  \* what the session reported last
  pc, attempt, error, cause, result,
  \* ConnectionControl
  forceXX, kkFailed, verdict, heard, completedXX, keyRejected,
  \* WssTransportState: closed_refused, handshake_done, the Noise channel
  \* (with the PSK its handshake uses), session_valid, the health, and
  \* whether handshake_notify woke the connect
  closedRefused, done, channel, psk, valid, shaken, phase, lastError, woken,
  \* the attempt whose reader runs, and its step; a cleanup under way
  reader, reading, cleanup,
  \* history: how the hub ended the attempt; did the connect wait in vain
  said, timedOut

worldVars   == <<password, known, admitted, patient>>
trustVars   == <<pin, cache>>
connectVars == <<attempt, error, cause, result, timedOut>>
kkVars      == <<forceXX, kkFailed>>
flagVars    == <<heard, completedXX, keyRejected, closedRefused>>
healthVars  == <<valid, shaken, phase, lastError>>
channelVars == <<channel, psk>>
readVars    == <<reader, reading>>
vars == <<worldVars, trustVars, pc, connectVars, kkVars, verdict, flagVars,
          done, channelVars, healthVars, woken, readVars, cleanup, said>>

NoVerdict == [kind |-> "none", of |-> 0]

Init ==
  /\ password \in BOOLEAN /\ known \in BOOLEAN /\ admitted \in BOOLEAN
  /\ patient \in BOOLEAN
  /\ pin \in {"none", "same", "other"}
  /\ cache \in {"none", "good", "bad"}
  /\ pc = "idle" /\ attempt = 0 /\ error = "none" /\ cause = FALSE
  /\ result = "none" /\ timedOut = FALSE
  /\ forceXX = FALSE /\ kkFailed = FALSE /\ verdict = NoVerdict
  /\ heard = FALSE /\ completedXX = FALSE /\ keyRejected = FALSE
  /\ closedRefused = FALSE /\ done = FALSE
  /\ channel = "none" /\ psk = "none"
  /\ valid = FALSE /\ shaken = FALSE /\ phase = "idle" /\ lastError = FALSE
  /\ woken = FALSE
  /\ reader = 0 /\ reading = "next" /\ cleanup = FALSE
  /\ said = "nothing"

Pending     == {"kk", "xx"}
Established == {"kkDone", "xxDone"}

\* The hub, or this client, can authenticate the handshake.
Authentic ==
  /\ psk = "good"
  /\ channel = "kk" => pin = "same" /\ known

\* Why a hub refuses: an access key it does not know, or not yet (which it
\* may say up to the HELLO that follows a KK handshake); a handshake it cannot
\* authenticate; and, once an XX handshake has shown it the client's key, that
\* key.
HubRefuses ==
  \/ ~admitted /\ channel # "xxDone"
  \/ channel \in Pending /\ ~Authentic
  \/ channel = "xxDone" /\ ~known

Step(from, to) == pc = from /\ pc' = to

SeenDown == phase \in {"closed", "error"} \/ (phase = "ready" /\ ~valid)

-----------------------------------------------------------------------------
(* NoiseChannel::drop: an unfinished handshake forgets the cached PSK.     *)
Forget == cache' = IF channel \in Pending THEN "none" ELSE cache

(* mark_disconnected and mark_error.                                       *)
Mark(as, why) ==
  /\ Forget
  /\ channel' = "none"
  /\ valid' = FALSE /\ shaken' = FALSE /\ phase' = as
  /\ lastError' = (lastError \/ why)
  /\ UNCHANGED <<psk, pin>>

-----------------------------------------------------------------------------
(* The connect.                                                            *)

Connect ==
  /\ attempt < MaxAttempts
  /\ \/ Step("idle", "reset")
     \/ Step("up", "reset") /\ SeenDown
  /\ forceXX' = FALSE /\ kkFailed' = FALSE /\ timedOut' = FALSE
  /\ result' = "none" /\ error' = "none" /\ cleanup' = FALSE
  /\ UNCHANGED <<worldVars, trustVars, attempt, cause, verdict, flagVars,
                 done, channelVars, healthVars, woken, readVars, said>>

(* connect_attempt: the verdict and reset_link.                            *)
Reset ==
  /\ attempt < MaxAttempts
  /\ Step("reset", "clean")
  /\ attempt' = attempt + 1
  /\ verdict' = NoVerdict
  /\ heard' = FALSE /\ completedXX' = FALSE /\ keyRejected' = FALSE
  /\ said' = "nothing" /\ timedOut' = FALSE
  /\ UNCHANGED <<worldVars, trustVars, error, cause, result, kkVars,
                 closedRefused, done, channelVars, healthVars, woken,
                 readVars, cleanup>>

(* connect_locked: disconnect_inner, which awaits the end of the last      *)
(* reader, then a new channel and a default health.                        *)
Clean ==
  /\ Step("clean", "dial")
  /\ reader' = 0 /\ reading' = "next"
  /\ closedRefused' = FALSE /\ done' = FALSE
  /\ Forget
  /\ channel' = IF forceXX THEN "newXX" ELSE "new"
  /\ valid' = FALSE /\ shaken' = FALSE
  /\ phase' = "connecting" /\ lastError' = FALSE
  /\ UNCHANGED <<worldVars, pin, connectVars, kkVars, verdict, heard,
                 completedXX, keyRejected, psk, woken, cleanup, said>>

(* The upgrade answered 401 or 403.                                        *)
UpgradeRefused ==
  /\ ~admitted
  /\ Step("dial", "failed")
  /\ closedRefused' = TRUE
  /\ error' = "refused" /\ said' = "refused"
  /\ Mark("error", TRUE)
  /\ UNCHANGED <<worldVars, attempt, cause, result, timedOut, kkVars,
                 verdict, heard, completedXX, keyRejected, done, woken,
                 readVars, cleanup>>

DialFails ==
  /\ Step("dial", "failed")
  /\ error' = "failed" /\ said' = "dropped"
  /\ Mark("error", TRUE)
  /\ UNCHANGED <<worldVars, attempt, cause, result, timedOut, kkVars,
                 verdict, flagVars, done, woken, readVars, cleanup>>

(* The socket is open; the notification is enabled, the reader spawned.    *)
Opens ==
  /\ Step("dial", "shake")
  /\ phase' = "handshake"
  /\ woken' = FALSE
  /\ reader' = attempt /\ reading' = "next"
  /\ UNCHANGED <<worldVars, trustVars, connectVars, kkVars, verdict, flagVars,
                 done, channelVars, valid, shaken, lastError, cleanup, said>>

Woken ==
  /\ woken
  /\ Step("shake", "check")
  /\ UNCHANGED <<worldVars, trustVars, connectVars, kkVars, verdict, flagVars,
                 done, channelVars, healthVars, woken, readVars, cleanup,
                 said>>

(* Twenty seconds.                                                         *)
TimesOut ==
  /\ Step("shake", "check")
  /\ timedOut' = TRUE
  /\ UNCHANGED <<worldVars, trustVars, attempt, error, cause, result, kkVars,
                 verdict, flagVars, done, channelVars, healthVars, woken,
                 readVars, cleanup, said>>

Check ==
  /\ \/ Step("check", "count") /\ shaken /\ valid
     \/ Step("check", "cause") /\ ~(shaken /\ valid)
  /\ UNCHANGED <<worldVars, trustVars, connectVars, kkVars, verdict, flagVars,
                 done, channelVars, healthVars, woken, readVars, cleanup,
                 said>>

(* mark_connection_ready: connect() returns Ok.                            *)
Count ==
  /\ Step("count", "settle")
  /\ phase' = "ready"
  /\ UNCHANGED <<worldVars, trustVars, connectVars, kkVars, verdict, flagVars,
                 done, channelVars, valid, shaken, lastError, woken, readVars,
                 cleanup, said>>

ReadCause ==
  /\ Step("cause", "hangUp")
  /\ cause' = lastError
  /\ UNCHANGED <<worldVars, trustVars, attempt, error, result, timedOut,
                 kkVars, verdict, flagVars, done, channelVars, healthVars,
                 woken, readVars, cleanup, said>>

HangUp ==
  /\ Step("hangUp", "type")
  /\ reader' = 0 /\ reading' = "next"
  /\ Mark("closed", FALSE)
  /\ UNCHANGED <<worldVars, connectVars, kkVars, verdict, flagVars, done,
                 woken, cleanup, said>>

Fails == Step("type", "failed")

(* typed(): the verdict, which is taken, or the fallback.                  *)
Typed(fallback) ==
  /\ error' = IF verdict = NoVerdict THEN fallback ELSE verdict.kind
  /\ verdict' = NoVerdict

(* The error: the rejected key, the verdict, or what the health said.      *)
Type ==
  /\ Fails
  /\ \/ keyRejected /\ error' = "keyRejected" /\ UNCHANGED verdict
     \/ ~keyRejected /\ Typed(IF cause THEN "failed" ELSE "timeout")
  /\ Mark("error", TRUE)
  /\ UNCHANGED <<worldVars, attempt, cause, result, timedOut, kkVars,
                 flagVars, done, woken, readVars, cleanup, said>>

Fail_NoSecondTry ==
  /\ Step("failed", "report")
  /\ UNCHANGED kkVars
  /\ UNCHANGED <<worldVars, trustVars, connectVars, verdict, flagVars, done,
                 channelVars, healthVars, woken, readVars, cleanup, said>>

(* connect_kk_then_xx: a KK that did not authenticate is followed by XX.   *)
Fail ==
  /\ \/ /\ kkFailed /\ ~forceXX
        /\ Step("failed", "reset")
        /\ kkFailed' = FALSE /\ forceXX' = TRUE
     \/ /\ ~kkFailed \/ forceXX
        /\ Step("failed", "report")
        /\ forceXX' = FALSE
        /\ UNCHANGED kkFailed
  /\ UNCHANGED <<worldVars, trustVars, connectVars, verdict, flagVars, done,
                 channelVars, healthVars, woken, readVars, cleanup, said>>

Refusal == IF keyRejected THEN "keyRejected" ELSE "refused"

(* connect_for_session: an untyped Connection error of a link that was     *)
(* closed as hubs refuse is that refusal.  The client is closed.           *)
Report ==
  /\ Step("report", "idle")
  /\ result' = IF error = "failed" /\ closedRefused THEN Refusal ELSE error
  /\ cleanup' = TRUE
  /\ UNCHANGED <<worldVars, trustVars, attempt, error, cause, timedOut,
                 kkVars, verdict, flagVars, done, channelVars, healthVars,
                 woken, readVars, said>>

(* settled(): the link went down in the settle window, or stayed up.       *)
SettleStops ==
  /\ SeenDown
  /\ Step("settle", "idle")
  /\ result' = IF closedRefused THEN Refusal ELSE "failed"
  /\ cleanup' = TRUE
  /\ UNCHANGED <<worldVars, trustVars, attempt, error, cause, timedOut,
                 kkVars, verdict, flagVars, done, channelVars, healthVars,
                 woken, readVars, said>>

SettleEnds ==
  /\ Step("settle", "up")
  /\ result' = "up"
  /\ UNCHANGED <<worldVars, trustVars, attempt, error, cause, timedOut,
                 kkVars, verdict, flagVars, done, channelVars, healthVars,
                 woken, readVars, cleanup, said>>

(* The caller stops waiting, or its deadline passes: ConnectionAttempt is  *)
(* dropped.  The reader goes on until the cleanup, or the next attempt.    *)
CutOff ==
  /\ ~patient
  /\ pc \in {"clean", "dial", "shake", "cause", "hangUp", "type", "count"}
  /\ pc' = "idle"
  /\ result' = "cut" /\ valid' = FALSE /\ cleanup' = TRUE
  /\ UNCHANGED <<worldVars, trustVars, attempt, error, cause, timedOut,
                 kkVars, verdict, flagVars, done, channelVars, shaken, phase,
                 lastError, woken, readVars, said>>

CleansUp ==
  /\ cleanup /\ pc = "idle"
  /\ cleanup' = FALSE
  /\ reader' = 0 /\ reading' = "next"
  /\ Mark("closed", FALSE)
  /\ UNCHANGED <<worldVars, pc, connectVars, kkVars, verdict, flagVars, done,
                 woken, said>>

-----------------------------------------------------------------------------
(* The reader, and the hub.                                                *)

Reads(to) ==
  /\ reader # 0 /\ reading = "next"
  /\ reading' = to
  /\ UNCHANGED <<worldVars, pc, connectVars, reader, cleanup>>

Saying(what) == said' = IF reader = attempt THEN what ELSE said

(* HELLO and the offer: start() picks KK for a pinned hub that offers it,  *)
(* unless XX is forced, and takes the PSK from the cache or derives it.    *)
ReadOffer ==
  /\ channel \in {"new", "newXX"}
  /\ Reads("next")
  /\ channel' \in {"xx"} \cup
       (IF channel = "new" /\ pin # "none" THEN {"kk"} ELSE {})
  /\ psk' = IF cache # "none" THEN cache ELSE IF password THEN "good" ELSE "bad"
  /\ cache' \in {psk', cache}
  /\ UNCHANGED <<pin, kkVars, verdict, flagVars, done, healthVars, woken, said>>

(* The hub's answer completes the handshake.  An XX answer shows the hub's *)
(* key, which must be the pinned one, or is pinned now.                    *)
ReadAnswer ==
  /\ channel \in Pending /\ Authentic /\ pin # "other"
  /\ Reads("tell")
  /\ pin' = "same"
  /\ completedXX' = (channel = "xx")
  /\ channel' = IF channel = "xx" THEN "xxDone" ELSE "kkDone"
  /\ valid' = TRUE
  /\ UNCHANGED <<cache, kkVars, verdict, heard, keyRejected, closedRefused,
                 done, psk, shaken, phase, lastError, woken, said>>

ReadChangedKey_Pins ==
  /\ channel = "xx" /\ Authentic /\ pin = "other"
  /\ Reads("tell")
  /\ pin' = "same"
  /\ completedXX' = TRUE
  /\ channel' = "xxDone"
  /\ valid' = TRUE
  /\ UNCHANGED <<cache, kkVars, verdict, heard, keyRejected, closedRefused,
                 done, psk, shaken, phase, lastError, woken, said>>

(* note_failure: the verdict of a handshake that failed on the key or on   *)
(* the password, and whether it was a KK, whose failure XX has to explain. *)
NoteFailure(kind) ==
  /\ verdict' = [kind |-> kind, of |-> reader]
  /\ kkFailed' = (kkFailed \/ channel = "kk")

ReadChangedKey ==
  /\ channel = "xx" /\ Authentic /\ pin = "other"
  /\ Reads("fail")
  /\ NoteFailure("keyChanged")
  /\ channel' = "failed"
  /\ Saying("changed")
  /\ UNCHANGED <<trustVars, forceXX, flagVars, done, psk, healthVars, woken>>

(* An answer that does not authenticate.                                   *)
ReadBadAnswer ==
  /\ channel \in Pending /\ ~Authentic
  /\ Reads("fail")
  /\ NoteFailure("refused")
  /\ cache' = "none" /\ channel' = "failed"
  /\ Saying("refused")
  /\ UNCHANGED <<pin, forceXX, flagVars, done, psk, healthVars, woken>>

(* A frame of an accepted client that decrypts.                            *)
ReadFrame ==
  /\ channel \in Established /\ valid /\ known /\ admitted
  /\ Reads("tell")
  /\ heard' = TRUE
  /\ UNCHANGED <<trustVars, kkVars, verdict, completedXX, keyRejected,
                 closedRefused, done, channelVars, healthVars, woken, said>>

(* close_refuses_after: a refusal code, before any frame that decrypted,   *)
(* in the handshake or soon after it.                                      *)
CloseRefuses(code, soon) == code = "refusal" /\ ~heard /\ (done => soon)

(* note_refusal_close, for a close within the handshake.                   *)
NoteRefusalClose ==
  /\ verdict' = [kind |-> "refused", of |-> reader]
  /\ kkFailed' = (kkFailed \/ channel = "kk")

(* A close: with a refusal code or not, soon after the handshake or later. *)
(* The verdict is kept before anyone hears of the close.                   *)
ReadClose(soon) ==
  \E code \in {"refusal", "other"} :
    LET refused == CloseRefuses(code, soon) IN
    /\ code = "refusal" => HubRefuses
    /\ Reads("close")
    /\ closedRefused' = refused
    /\ keyRejected' = (refused /\ done /\ completedXX)
    /\ IF refused /\ ~done
       THEN NoteRefusalClose ELSE UNCHANGED <<verdict, kkFailed>>
    /\ Saying(IF refused THEN "refused" ELSE "dropped")
    /\ UNCHANGED <<trustVars, forceXX, heard, completedXX, done, channelVars,
                   healthVars, woken>>

(* The socket fails, or a message is not what it should be.                *)
ReadFails ==
  /\ Reads("fail")
  /\ Saying("dropped")
  /\ UNCHANGED <<trustVars, kkVars, verdict, flagVars, done, channelVars,
                 healthVars, woken>>

Goes(from, to) ==
  /\ reader # 0 /\ reading = from
  /\ reading' = to
  /\ UNCHANGED <<worldVars, pc, connectVars, kkVars, verdict, flagVars,
                 reader, cleanup, said>>

Wake == woken' = (woken \/ pc = "shake")

(* handle_socket_message, after the channel is ready.                      *)
ReaderTells ==
  /\ Goes("tell", "next")
  /\ done' = TRUE /\ shaken' = TRUE
  /\ Wake
  /\ UNCHANGED <<trustVars, channelVars, valid, phase, lastError>>

ReaderFails ==
  /\ Goes("fail", "end")
  /\ Mark("error", TRUE)
  /\ UNCHANGED <<done, woken>>

(* A close marks the link, and then the health's last_error.               *)
CloseMarks ==
  /\ Goes("close", "closed")
  /\ Mark("closed", FALSE)
  /\ UNCHANGED <<done, woken>>

CloseTells ==
  /\ Goes("closed", "end")
  /\ lastError' = TRUE
  /\ UNCHANGED <<trustVars, done, channelVars, valid, shaken, phase, woken>>

(* Whoever waits for the handshake is released.                            *)
ReaderEnds ==
  /\ reader # 0 /\ reading = "end"
  /\ reader' = 0 /\ reading' = "next"
  /\ Wake
  /\ UNCHANGED <<worldVars, trustVars, pc, connectVars, kkVars, verdict,
                 flagVars, done, channelVars, healthVars, cleanup, said>>

-----------------------------------------------------------------------------
\* What the connect does unless it waits for the hub or is cut off.
Progress ==
  \/ Reset \/ Clean \/ Woken \/ Check \/ Count \/ ReadCause \/ HangUp \/ Type
  \/ Fail \/ Report

Hub ==
  \/ ReadOffer \/ ReadAnswer \/ ReadChangedKey \/ ReadBadAnswer \/ ReadFrame
  \/ ReadFails \/ \E soon \in BOOLEAN : ReadClose(soon)

Reader ==
  ReaderTells \/ ReaderFails \/ CloseMarks \/ CloseTells \/ ReaderEnds

Next ==
  \/ Connect \/ Progress \/ UpgradeRefused \/ DialFails \/ Opens \/ TimesOut
  \/ SettleStops \/ SettleEnds \/ CutOff \/ CleansUp
  \/ Hub \/ Reader

(* The connect and the reader are tasks the runtime polls.  Nothing is     *)
(* assumed of the hub, and no timer is waited for.                         *)
Spec == Init /\ [][Next]_vars /\ WF_vars(Progress) /\ WF_vars(Reader)

-----------------------------------------------------------------------------
Kinds == {"none", "refused", "keyChanged", "keyRejected", "failed", "timeout"}

TypeOK ==
  /\ password \in BOOLEAN /\ known \in BOOLEAN /\ admitted \in BOOLEAN
  /\ patient \in BOOLEAN
  /\ pin \in {"none", "same", "other"} /\ cache \in {"none", "good", "bad"}
  /\ pc \in {"idle", "reset", "clean", "dial", "shake", "check", "count",
             "cause", "hangUp", "type", "failed", "report", "settle", "up"}
  /\ attempt \in Attempts /\ error \in Kinds /\ cause \in BOOLEAN
  /\ result \in Kinds \cup {"up", "cut"} /\ timedOut \in BOOLEAN
  /\ forceXX \in BOOLEAN /\ kkFailed \in BOOLEAN
  /\ verdict \in [kind : {"none", "refused", "keyChanged"}, of : Attempts]
  /\ heard \in BOOLEAN /\ completedXX \in BOOLEAN /\ keyRejected \in BOOLEAN
  /\ closedRefused \in BOOLEAN /\ done \in BOOLEAN
  /\ channel \in {"none", "new", "newXX", "failed"} \cup Pending
                   \cup Established
  /\ psk \in {"none", "good", "bad"}
  /\ valid \in BOOLEAN /\ shaken \in BOOLEAN /\ lastError \in BOOLEAN
  /\ phase \in {"idle", "connecting", "handshake", "ready", "closed", "error"}
  /\ woken \in BOOLEAN
  /\ reader \in Attempts
  /\ reading \in {"next", "tell", "fail", "close", "closed", "end"}
  /\ cleanup \in BOOLEAN
  /\ said \in {"nothing", "refused", "changed", "dropped"}
  /\ channel \in Established => pin = "same"

Reports(r) == result' = r /\ result # r

(* The reason a connect gives is the case: a changed key only when the hub *)
(* showed another key than the pinned one under the right password, a      *)
(* rejected key only when the hub does not know this client's, a refusal   *)
(* only for the password (or the PSK cached of an older one) or the access *)
(* key.  ("Only XX tells a changed password from a changed hub key.")      *)
(* A connect that was cut off may leave the next one its reason.           *)
TellsWhy ==
  [][patient =>
     /\ Reports("keyChanged") => pin = "other" /\ psk = "good"
     /\ Reports("keyRejected") => ~known /\ psk = "good"
     /\ Reports("refused") => psk = "bad" \/ ~admitted]_vars

(* The pin is set on first contact and never replaced.                     *)
PinIsKept == [][pin' # pin => pin = "none"]_vars

(* A hub that refuses this client before it has completed the handshake is *)
(* reported so, whenever its answer or its close arrives.                  *)
HandshakeRefusalReported ==
  [][(result' # result /\ result' \notin {"none", "cut"}
       /\ ~done /\ ~timedOut /\ said \in {"refused", "changed"})
         => result' \in {"refused", "keyRejected", "keyChanged"}]_vars

(* "A hub that closes the link while the connection is being set up, the   *)
(* way it refuses credentials, is reported as a refusal": also when the    *)
(* close comes right after the handshake, before or after connect() has    *)
(* counted the link.                                                       *)
RefusalReported ==
  [][(result' # result /\ result' \notin {"none", "cut", "up"}
       /\ ~timedOut /\ said \in {"refused", "changed"})
         => result' \in {"refused", "keyRejected", "keyChanged"}]_vars

TypesForeignVerdict ==
  /\ pc = "type" /\ pc' = "failed"
  /\ verdict' # verdict /\ verdict.of # attempt

(* The error a failed handshake is comes from that handshake: no verdict   *)
(* of an earlier attempt's link ("forget what the last link said about     *)
(* itself: a new attempt starts").                                         *)
VerdictIsOwn == [][~TypesForeignVerdict]_vars

(* The same while no caller cuts a connect off: the KK's link, and a link  *)
(* that was refused after it came up, leave the next attempt no verdict.   *)
WaitedVerdictIsOwn == [][patient => ~TypesForeignVerdict]_vars

(* A connect does not sit out its twenty seconds on a link whose reader    *)
(* has ended: a hub that closes, or an answer that fails, releases it.     *)
EndReleasesConnect ==
  (pc = "shake" /\ reading \in {"close", "fail"} /\ reader = attempt)
    ~> (pc # "shake")
=============================================================================
