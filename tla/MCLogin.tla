------------------------------ MODULE MCLogin ------------------------------
(***************************************************************************)
(* How two ends that keep a session each stay in step: a login of Login under   *)
(* each of the settings below, or the longer exchange of Sessions in either       *)
(* protocol, from the handshake to play and back to configuration.  The parts     *)
(* share no state; a behaviour is of one of them.                              *)
(***************************************************************************)
EXTENDS Login, Integers

CONSTANTS Thresholds, MaxInFlight

VARIABLES part, version, state, compression, link, asked, owed, joined

crossing == <<version, state, compression, link, asked, owed, joined>>

Exchange == INSTANCE Sessions WITH CompressesInPlay <- "first"

ASSUME ExchangeAssumption == Exchange!SessionsAssumption

(* Behind each setting what may go wrong: the session service or the verifier     *)
(* says no, a context ends, an end is closed.                                  *)
Setting(acknowledged, online, packs, terminal, faults) ==
  [acknowledged |-> acknowledged, online |-> online, compresses |-> TRUE,
   packs |-> packs, terminal |-> terminal, faults |-> faults]

Refusals == {<<"join", "fails">>, <<"verify", "fails">>}
Expiries == Ends \X {"expires"}
HangUps  == Ends \X {"hangs_up"}
Leaving  == {"client"} \X {"expires", "hangs_up"}

TheSettings ==
  {Setting(FALSE, TRUE, FALSE, "play", Refusals),
   Setting(TRUE, TRUE, TRUE, "play", Refusals),
   Setting(TRUE, TRUE, TRUE, "play", HangUps),
   Setting(TRUE, TRUE, FALSE, "play", Expiries),
   Setting(TRUE, FALSE, TRUE, "configuration", Leaving)}

TheThresholds == {-7, 0, 256}

Quiet == CHOOSE s \in Settings : TRUE

PartsInit ==
  /\ part \in {"login", "sessions"}
  /\ Init /\ Exchange!Init
  /\ part = "sessions" => setting = Quiet
  /\ part = "login" => version = 47

PartsNext ==
  /\ UNCHANGED part
  /\ \/ part = "login" /\ Next /\ UNCHANGED crossing
     \/ part = "sessions" /\ Exchange!Next /\ UNCHANGED vars

(* The logins are fair where they are what runs.                               *)
PartsSpec ==
  /\ PartsInit /\ [][PartsNext]_<<part, vars, crossing>>
  /\ \A e \in Ends :
       /\ WF_vars(part = "login" /\ StreamRuns(e) /\ UNCHANGED setting)
       /\ WF_vars(part = "login" /\ LoginRuns(e) /\ UNCHANGED setting)
-----------------------------------------------------------------------------
(* Each end reads every frame in the state, and with the compression, that its peer  *)
(* wrote it with, though the frame names neither and both ends write and move on at   *)
(* the same time; and with nothing on its way and nothing left to acknowledge the     *)
(* two sessions agree (v26_1/protocol.go 313-318, v1_8/protocol.go 381-388).        *)
SessionsInStep == Exchange!TypeOK /\ Exchange!ReadAsWritten /\ Exchange!AgreeWhenQuiet

(* Whatever crosses, and whichever end is ahead, no end reads bytes that a cipher it    *)
(* does not have has changed, or meets a packet it has no place for                    *)
(* (login/negotiator.go 383-428, login/acceptor.go 219-248).  Nor does anything of a    *)
(* login leave its type.                                                          *)
EndsUnderstandEachOther == TypeOK /\ NeverGarbled /\ NeverSurprised

(* Neither end of a login waits for the other for ever, whatever of the above goes    *)
(* wrong: both login functions return.  (A client that was asked to stop sooner        *)
(* leaves the rest of the exchange, which the server waits for, to its caller.)       *)
LoginsReturn ==
  part = "login" /\ Terminal = "play" ~> \A e \in Ends : todo[e] = <<>>
=============================================================================
