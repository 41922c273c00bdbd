-------------------------------- MODULE DcFsm --------------------------------
(***************************************************************************)
(* The state machine runner of libdc_fsm that both programs are built on.  *)
(* dc_fsm_run keeps the pair of states it moves between, looks the pair up *)
(* in the program's transition table, calls the function it finds there,   *)
(* and takes the value that function returns as the next state.  It stops  *)
(* when that state is DC_FSM_EXIT, or when the pair is not in the table.   *)
(* The library is not part of the repository: it is modelled from the      *)
(* tables and the three callbacks that server.c and ncurse_cli.c give it.  *)
(***************************************************************************)

CONSTANT Transitions    \* the pairs <<from_id, to_id>> of the program's table

VARIABLES from, to      \* the pair dc_fsm_run looks up, or is running

(* The function the table gives for the state s is running. *)
At(s) == to = s /\ <<from, to>> \in Transitions

(* The running function returns s. *)
Goto(s) == from' = to /\ to' = s

(* The function returned DC_FSM_EXIT: dc_fsm_run returns. *)
Returned == to = "DC_FSM_EXIT"

(* No function for this pair: dc_fsm_run reports a bad change and returns. *)
Missed == ~Returned /\ <<from, to>> \notin Transitions

(* The pair every run starts from. *)
Started(s) == from = "DC_FSM_INIT" /\ to = s
==============================================================================
