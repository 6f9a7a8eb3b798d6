------------------------------ MODULE FrontEnd ------------------------------
(***************************************************************************)
(* The two ways into the sidecar from a Verilator command line: through    *)
(* the wrapper in RTLMeter's PATH (Rtlmeter) and along the native parser   *)
(* (NativePath).  They share the option readers of SidecarArgs, and        *)
(* nothing they write: a session takes one of them.                        *)
(***************************************************************************)
EXTENDS Rtlmeter, NativePath

VARIABLE session

frontVars == <<session, vars, nativeVars>>

(* The way that is not taken rests in one state.                           *)
FrontInit ==
  /\ session \in {"rtlmeter", "native"}
  /\ Init
  /\ NativeInit
  /\ session = "native" => /\ env = CHOOSE e \in Environments : TRUE
                           /\ kind = CHOOSE k \in Installations : TRUE
  /\ session = "rtlmeter" => /\ asked = CHOOSE r \in NativeRequests : TRUE
                             /\ other = asked

FrontNext ==
  \/ session = "rtlmeter" /\ Next /\ UNCHANGED <<session, nativeVars>>
  \/ session = "native" /\ NativeNext /\ UNCHANGED <<session, vars>>

FrontSpec == FrontInit /\ [][FrontNext]_frontVars /\ ProcessesRun
=============================================================================
