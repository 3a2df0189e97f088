----------------------------- MODULE ScuDsp_proofs -----------------------------
(***************************************************************************)
(* Proofs about the SCU DSP driver model, for every set of handlers,      *)
(* pages, offsets and counts.                                             *)
(***************************************************************************)
EXTENDS ScuDsp, TLAPS

(* The handler state scu_dsp_end_set keeps consistent between its         *)
(* statements: while it runs the interrupt is masked, once it has         *)
(* assigned a handler that handler is _dsp_end_ihr, and whenever the      *)
(* interrupt is unmasked _dsp_end_ihr is the handler the last end_set     *)
(* installed.                                                             *)
HandlerInv ==
    /\ pc \in {"idle", "masked", "defaulted", "assigned"}
    /\ masked \in BOOLEAN /\ end_flag \in BOOLEAN
    /\ pc # "idle" => masked
    /\ (pc = "assigned" /\ arg # NULL) => ihr = arg
    /\ ~masked => ihr = installed

(* The end_set sequence, the program and the transfers preserve           *)
(* HandlerInv.                                                            *)
LEMMA HandlerInvStep == HandlerInv /\ [Next]_vars => HandlerInv'
<1> SUFFICES ASSUME HandlerInv, [Next]_vars PROVE HandlerInv'
    OBVIOUS
<1>1. CASE EndSetMask
      BY <1>1, Zenon DEF HandlerInv, EndSetMask
<1>2. CASE EndSetDefault
      BY <1>2, Zenon DEF HandlerInv, EndSetDefault
<1>3. CASE EndSetAssign
      BY <1>3, Zenon DEF HandlerInv, EndSetAssign
<1>4. CASE EndSetUnmask
      BY <1>4, Zenon DEF HandlerInv, EndSetUnmask
<1>5. CASE ProgramLoad
      BY <1>5, Zenon DEF HandlerInv, ProgramLoad, vars
<1>6. CASE ProgramStart
      BY <1>6, Zenon DEF HandlerInv, ProgramStart
<1>7. CASE ProgramEnd
      BY <1>7, Zenon DEF HandlerInv, ProgramEnd
<1>8. CASE EndInterrupt
      BY <1>8, Zenon DEF HandlerInv, EndInterrupt
<1>9. CASE DataTransfer("read") \/ DataTransfer("write")
  <2>1. ASSUME NEW kind, DataTransfer(kind)
        PROVE  UNCHANGED <<masked, end_flag, ihr, pc, arg, installed>>
        BY <2>1, Zenon DEF DataTransfer, vars
  <2>2. UNCHANGED <<masked, end_flag, ihr, pc, arg, installed>>
        BY <1>9, <2>1
  <2> QED
      BY <2>2, Zenon DEF HandlerInv
<1>10. CASE UNCHANGED vars
      BY <1>10, Zenon DEF HandlerInv, vars
<1> QED
    BY <1>1, <1>2, <1>3, <1>4, <1>5, <1>6, <1>7, <1>8, <1>9, <1>10 DEF Next

(* Only _dsp_end_handler clears the end flag, and it is taken only while  *)
(* the interrupt is unmasked.                                             *)
LEMMA FlagClearedByInterrupt ==
    HandlerInv /\ [Next]_vars /\ end_flag /\ ~end_flag' => ~masked
<1> SUFFICES ASSUME HandlerInv, [Next]_vars, end_flag, ~end_flag' PROVE ~masked
    OBVIOUS
<1>1. ~EndSetMask /\ ~EndSetDefault /\ ~EndSetAssign /\ ~EndSetUnmask
      BY Zenon DEF EndSetMask, EndSetDefault, EndSetAssign, EndSetUnmask
<1>2. ~ProgramLoad /\ ~ProgramStart /\ ~ProgramEnd
      BY Zenon DEF ProgramLoad, ProgramStart, ProgramEnd, vars
<1>3. ~DataTransfer("read") /\ ~DataTransfer("write") /\ ~UNCHANGED vars
      BY Zenon DEF DataTransfer, vars
<1> QED
    BY <1>1, <1>2, <1>3, Zenon DEF Next, EndInterrupt

(* When the DSP END interrupt is taken, _dsp_end_ihr is the handler the   *)
(* last completed scu_dsp_end_set installed (EndCallsInstalled, which the *)
(* dsp run checks), for every set of handlers.                            *)
THEOREM EndHandlerInstalled == Spec => EndCallsInstalled
<1>1. Init => HandlerInv
      BY DspAssumption, Zenon DEF Init, HandlerInv
<1>2. HandlerInv /\ [Next]_vars => [(end_flag /\ ~end_flag') => ihr = installed]_vars
      BY FlagClearedByInterrupt, Zenon DEF HandlerInv
<1> QED
    BY <1>1, <1>2, HandlerInvStep, PTL DEF Spec, EndCallsInstalled

=============================================================================
