-------------------------------- MODULE TxMain --------------------------------
(***************************************************************************)
(* The main thread of the three transmitters (gsp-opus-tx-ogg,             *)
(* gsp-opus-tx.rawudp, gsp-opus-tx-net) from Pa_OpenStream to exit, with   *)
(* its SIGINT handler and the PortAudio callback that encodes meanwhile.   *)
(*                                                                         *)
(* Linux gives a SIGINT to the main thread unless that blocks it.  So the  *)
(* first is handled there: the handler ends in exit, and what it does      *)
(* replaces what main had still to do.  It blocks SIGINT in its thread     *)
(* only, and a second one is handled meanwhile by another: the control     *)
(* thread of gsp-opus-tx-net or a thread of PortAudio.  More than these    *)
(* two handlers are not modelled.                                          *)
(*                                                                         *)
(* A step is one call.                                                     *)
(***************************************************************************)
EXTENDS Integers, Sequences

CONSTANTS
  OPUS_AUTO, OPUS_BITRATE_MAX,  (* negative values of OPUS_SET_BITRATE      *)
  Lowest, Highest,              (* what Opus takes any other value to       *)
  KeyStep,                      (* what '+' adds                            *)
  MaxRate                       (* bound on arg_bitrate, which may also be  *)
                                (* negative                                 *)

ASSUME RateAssumption ==
  /\ Lowest \in Nat \ {0} /\ Highest \in Nat /\ Lowest <= Highest
  /\ OPUS_AUTO \in Int /\ OPUS_AUTO < 0 /\ OPUS_BITRATE_MAX \in Int /\ OPUS_BITRATE_MAX < 0
  /\ KeyStep \in Nat \ {0} /\ MaxRate \in Nat

VARIABLES
  program,      (* which of the three                                      *)
  todo,         (* calls main will make next                               *)
  handler,      (* calls the second SIGINT's handler will make next        *)
  key,          (* what getchar returned                                   *)
  arg_bitrate, bitrate,    (* wanted, and in force in the encoder          *)
  stream, oe,   (* "none", "ready", "started", "closing" or "gone"         *)
  tty,          (* as stty left it                                         *)
  encoding,     (* the callback is inside opus_encode_float                *)
  adjusted,     (* history: gsp-opus-tx-ogg was given a '+' or '-'         *)
  shutdown,     (* history: 'q' was typed or SIGINT came: cleanup began    *)
  twice,        (* history: it began again before the process ended        *)
  signalled,    (* main handles SIGINT, and blocks it                      *)
  unsafe,       (* ... and it came while main was inside a library         *)
  misused,      (* history: the callback and the encoder's end met         *)
  ended         (* "no", or how the process ended                          *)

setup == <<arg_bitrate, bitrate, stream, oe, tty>>
history == <<adjusted, shutdown, twice, signalled, unsafe>>
mainVars == <<program, todo, handler, key, setup, encoding, history, misused, ended>>

-----------------------------------------------------------------------------
(* Mutated forms of operators below: bugs the properties have to notice.    *)
StartupUnordered ==
  [ogg    |-> <<"open", "start", "create", "settings", "init">>,
   rawudp |-> <<"open", "create", "init", "settings", "start">>,
   net    |-> <<"open", "start">>]

StartupInitLast ==
  [ogg    |-> <<"open", "create", "settings", "init", "start">>,
   rawudp |-> <<"open", "create", "settings", "init", "start">>,
   net    |-> <<"open", "start">>]

sig_handlerForgetsTty ==
  [ogg    |-> <<"ogg_destroy", "destroy", "stop", "close", "exit">>,
   rawudp |-> <<"ogg_destroy", "destroy", "stop", "close", "exit">>,
   net    |-> <<"stop", "close", "exit">>]

-----------------------------------------------------------------------------
Startup ==
  [ogg    |-> <<"open", "create", "settings", "init", "start">>,
   rawudp |-> <<"open", "create", "init", "settings", "start">>,
   net    |-> <<"open", "start">>]

Loop ==
  [ogg    |-> <<"raw", "getchar", "cooked", "switch">>,
   rawudp |-> <<"sleep">>,
   net    |-> <<"getchar", "switch">>]

cleanup ==
  [ogg    |-> <<"ogg_destroy", "destroy", "stop", "close", "cooked">>,
   rawudp |-> <<"ogg_destroy", "destroy", "stop", "close">>,
   net    |-> <<"stop", "close", "cooked">>]

sig_handler ==
  [ogg    |-> cleanup.ogg \o <<"cooked", "exit">>,
   rawudp |-> cleanup.rawudp \o <<"exit">>,
   net    |-> cleanup.net \o <<"cooked", "exit">>]

(* system() ignores SIGINT, getchar and Pa_Sleep hold nothing: the others   *)
(* may hold a lock of malloc or PortAudio that the handler needs.           *)
Shell == {"raw", "cooked"}
Waits == {"getchar", "sleep", "switch", "exit"}

MainInit ==
  /\ program \in {"ogg", "rawudp", "net"}
  /\ todo = Startup[program] /\ handler = <<>>
  /\ key = "none"
  /\ arg_bitrate \in -MaxRate .. MaxRate /\ bitrate = OPUS_AUTO
  /\ stream = "none" /\ oe = "none" /\ tty = "cooked"
  /\ encoding = FALSE /\ adjusted = FALSE
  /\ shutdown = FALSE /\ twice = FALSE /\ signalled = FALSE /\ unsafe = FALSE
  /\ misused = FALSE /\ ended = "no"

Does(call) == ended = "no" /\ Head(todo) = call

Return == todo' = IF Len(todo) > 1 THEN Tail(todo) ELSE Loop[program]

Goes == /\ Return
        /\ UNCHANGED <<program, handler, key, encoding, history, misused, ended>>

(* Pa_OpenStream and Pa_StartStream; on an error main exits.                *)
Fails ==
  /\ Does("open") \/ Does("start")
  /\ ended' = "exited"
  /\ UNCHANGED <<program, todo, handler, key, setup, encoding, history, misused>>

(* With it, gsp-opus-tx-net creates its control thread.                     *)
OpenStream ==
  /\ Does("open")
  /\ stream' = "ready"
  /\ UNCHANGED <<arg_bitrate, bitrate, oe, tty>> /\ Goes

StartStream ==
  /\ Does("start")
  /\ stream' = "started"
  /\ UNCHANGED <<arg_bitrate, bitrate, oe, tty>> /\ Goes

(* opus_encoder_create, and opus_encoder_init, which sets the defaults.     *)
Initialize ==
  /\ Does("create") \/ Does("init")
  /\ oe' = "ready" /\ bitrate' = OPUS_AUTO
  /\ UNCHANGED <<arg_bitrate, stream, tty>> /\ Goes

(* OPUS_SET_BITRATE: a value refused changes nothing.                       *)
Accepted(rate) == rate > 0 \/ rate \in {OPUS_AUTO, OPUS_BITRATE_MAX}

Clamped(rate) == IF rate < 0 THEN rate
                 ELSE IF rate <= Lowest THEN Lowest
                 ELSE IF rate > Highest THEN Highest ELSE rate

SetBitrate(rate) == bitrate' = IF Accepted(rate) THEN Clamped(rate) ELSE bitrate

Settings ==
  /\ Does("settings")
  /\ SetBitrate(arg_bitrate)
  /\ UNCHANGED <<arg_bitrate, stream, oe, tty>> /\ Goes

Sleep == Does("sleep") /\ UNCHANGED setup /\ Goes

Getchar ==
  /\ Does("getchar")
  /\ key' \in {"q", "+", "-", "o"}
  /\ key' = "+" => arg_bitrate + KeyStep <= MaxRate
  /\ key' = "-" => arg_bitrate - KeyStep >= -MaxRate
  /\ Return
  /\ UNCHANGED <<program, handler, setup, encoding, history, misused, ended>>

(* The switch: only gsp-opus-tx-ogg knows '+' and '-'.                      *)
OtherBitrate ==
  /\ Does("switch") /\ key \in {"+", "-"} /\ program = "ogg"
  /\ arg_bitrate' = IF key = "+" THEN arg_bitrate + KeyStep ELSE arg_bitrate - KeyStep
  /\ SetBitrate(arg_bitrate')
  /\ adjusted' = TRUE
  /\ Return
  /\ UNCHANGED <<program, handler, key, stream, oe, tty, encoding,
                 shutdown, twice, signalled, unsafe, misused, ended>>

OtherKey ==
  /\ Does("switch")
  /\ key = "o" \/ (key \in {"+", "-"} /\ program # "ogg")
  /\ UNCHANGED setup /\ Goes

Quit ==
  /\ Does("switch") /\ key = "q"
  /\ todo' = cleanup[program] \o <<"exit">>
  /\ shutdown' = TRUE
  /\ UNCHANGED <<program, handler, key, setup, encoding, adjusted, twice,
                 signalled, unsafe, misused, ended>>

-----------------------------------------------------------------------------
(* Calls that main and handlers make.  Where the behaviour is undefined the *)
(* process goes on or is killed.                                            *)
MayDie(undefined) == ended' \in IF undefined THEN {"no", "killed"} ELSE {"no"}

Stty(call) ==
  /\ call \in Shell
  /\ tty' = call
  /\ UNCHANGED <<arg_bitrate, bitrate, stream, oe, misused>> /\ MayDie(FALSE)

(* ogg_stream_destroy(&os) frees a static object.                           *)
OggDestroy(call) ==
  /\ call = "ogg_destroy"
  /\ UNCHANGED <<setup, misused>> /\ MayDie(TRUE)

(* Frees the encoder; nothing happens to none, anything to one freed before *)
(* or in the hands of the callback.                                         *)
Destroy(call) ==
  /\ call = "destroy"
  /\ oe' = IF oe = "none" THEN "none" ELSE "gone"
  /\ misused' = (misused \/ encoding)
  /\ UNCHANGED <<arg_bitrate, bitrate, stream, tty>>
  /\ MayDie(oe = "gone" \/ encoding)

(* Pa_CloseStream in two steps: it makes no more callbacks, and waits for   *)
(* the one under way.  Nothing happens to no stream, anything to one that   *)
(* is being closed or was: the pointer is left as it is.  Pa_Terminate      *)
(* changes nothing that is modelled.                                        *)
StopStream(call) ==
  /\ call = "stop"
  /\ stream' = IF stream \in {"ready", "started"} THEN "closing" ELSE stream
  /\ UNCHANGED <<arg_bitrate, bitrate, oe, tty, misused>>
  /\ MayDie(stream \in {"closing", "gone"})

CloseStream(call) ==
  /\ call = "close" /\ ~ encoding
  /\ stream' = IF stream = "none" THEN "none" ELSE "gone"
  /\ UNCHANGED <<arg_bitrate, bitrate, oe, tty, misused>>
  /\ MayDie(stream = "gone")

SharedCall(call) ==
  Stty(call) \/ OggDestroy(call) \/ Destroy(call) \/ StopStream(call) \/ CloseStream(call)

MainCall ==
  /\ ended = "no" /\ SharedCall(Head(todo))
  /\ Return
  /\ UNCHANGED <<program, handler, key, encoding, history>>

HandlerCall ==
  /\ ended = "no" /\ handler # <<>> /\ SharedCall(Head(handler))
  /\ handler' = Tail(handler)
  /\ UNCHANGED <<program, todo, key, encoding, history>>

Exit ==
  /\ ended' = "exited"
  /\ UNCHANGED <<program, todo, handler, key, setup, encoding, history, misused>>

MainExit == Does("exit") /\ Exit

HandlerExit == ended = "no" /\ handler # <<>> /\ Head(handler) = "exit" /\ Exit

-----------------------------------------------------------------------------
(* The handler interrupts main before its next call or inside of it.        *)
Sigint ==
  /\ ended = "no" /\ ~ signalled
  /\ unsafe' \in {FALSE, Head(todo) \notin Shell \cup Waits}
  /\ todo' = sig_handler[program]
  /\ signalled' = TRUE /\ shutdown' = TRUE /\ twice' = shutdown
  /\ UNCHANGED <<program, handler, key, setup, encoding, adjusted, misused, ended>>

(* A thread of PortAudio's is there while the stream is.                    *)
OtherThread == \/ program = "net" /\ stream # "none"
               \/ stream \in {"started", "closing"}

SigintElsewhere ==
  /\ ended = "no" /\ signalled /\ handler = <<>> /\ OtherThread
  /\ handler' = sig_handler[program]
  /\ twice' = TRUE
  /\ UNCHANGED <<program, todo, key, setup, encoding, adjusted, shutdown,
                 signalled, unsafe, misused, ended>>

(* A lock the interrupted call holds is never released; in the callback's   *)
(* thread, Pa_CloseStream waits for itself, and main's for it.              *)
Hang ==
  /\ ended = "no" /\ (unsafe \/ handler # <<>>)
  /\ ended' = "hung"
  /\ UNCHANGED <<program, todo, handler, key, setup, encoding, history, misused>>

(* The callback; that of gsp-opus-tx-net uses no encoder of main's.         *)
BeginEncode ==
  /\ ended = "no" /\ stream = "started" /\ ~ encoding /\ program # "net"
  /\ encoding' = TRUE
  /\ misused' = (misused \/ oe # "ready")
  /\ MayDie(oe # "ready")
  /\ UNCHANGED <<program, todo, handler, key, setup, history>>

EndEncode ==
  /\ ended \in {"no", "hung"} /\ encoding
  /\ encoding' = FALSE
  /\ UNCHANGED <<program, todo, handler, key, setup, history, misused, ended>>

MainStep ==
  \/ Fails \/ OpenStream \/ StartStream \/ Initialize \/ Settings
  \/ Sleep \/ Getchar \/ OtherBitrate \/ OtherKey \/ Quit
  \/ MainCall \/ MainExit

MainNext ==
  \/ MainStep \/ HandlerCall \/ HandlerExit
  \/ Sigint \/ SigintElsewhere \/ Hang \/ BeginEncode \/ EndEncode

MainSpec == MainInit /\ [][MainNext]_mainVars

(* The main thread runs and the callback returns; keys and SIGINT need not  *)
(* come, and getchar need not return.                                       *)
FairSpec ==
  /\ MainSpec
  /\ WF_mainVars(MainStep /\ ~ Does("getchar"))
  /\ WF_mainVars(EndEncode)

-----------------------------------------------------------------------------
(* The callback meets only an encoder that is there, from the first call    *)
(* until 'q' or SIGINT; gsp-opus-tx-net is not killed by its cleanup, which *)
(* frees nothing the callback uses, unless that is begun a second time: by  *)
(* SIGINT after 'q', or by a second SIGINT.                                 *)
SafeUntilShutdown ==
  (misused \/ ended \in {"killed", "hung"}) =>
    /\ shutdown
    /\ program = "net" /\ ended = "killed" => twice

(* When main waits, the encoder has the bitrate last asked for, as far as   *)
(* Opus goes that way, if it takes it at all.  In gsp-opus-tx-ogg -r does   *)
(* not ask for anything, for opus_encoder_init undoes it: only '+' and '-'  *)
(* do, and until the first of them Opus chooses.                            *)
BitrateInForce ==
  stream = "started" /\ Head(todo) \in {"raw", "getchar", "sleep"} =>
    /\ (program = "rawudp" \/ adjusted) /\ Accepted(arg_bitrate)
         => bitrate = Clamped(arg_bitrate)
    /\ program = "ogg" /\ ~ adjusted => bitrate = OPUS_AUTO

(* Once 'q' is typed or SIGINT handled, the process ends, with the terminal *)
(* as it was unless undefined behaviour kills it; only a handler that       *)
(* interrupted a library, or two handlers, may wait for ever.               *)
Ends ==
  shutdown ~> \/ ended = "exited" /\ tty = "cooked"
              \/ ended = "killed"
              \/ unsafe \/ handler # <<>>
=============================================================================
