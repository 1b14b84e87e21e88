------------------------- MODULE AuthCallbackProofs -------------------------
(***************************************************************************)
(* The OAuth helper shows its pages truthfully, for any number of requests  *)
(* and codes. PagesTruthful is not inductive: that the handler whose code   *)
(* was received is the only one that can return after sending one is what   *)
(* Sends says, and Receipt that Shutdown waits for it.                      *)
(***************************************************************************)
EXTENDS AuthCallback, TLAPS

\* The server starts without connections, and the main goroutine waits.
LEMMA InitIInv == Init => IInv
BY AuthAssumption DEF Init, IInv, TypeOK, Sends, Receipt

\* Whatever a browser, a handler or the main goroutine does, at most one handler that
\* sent a code goes on.
LEMMA StepIInv == IInv /\ [Next]_vars => IInv'
<1> SUFFICES ASSUME IInv, [Next]_vars PROVE IInv'
  OBVIOUS
<1> USE AuthAssumption DEF IInv, TypeOK, Sends, Receipt
<1>1. CASE Listen \/ ListenError
  BY <1>1 DEF Listen, ListenError, Alive
<1>2. CASE \E r \in Requests : Connect(r)
  BY <1>2 DEF Connect
<1>3. CASE \E r \in Requests : Handle(r)
  BY <1>3 DEF Handle
<1>4. CASE \E r \in Requests : Flush(r)
  BY <1>4 DEF Flush
<1>5. CASE \E r \in Requests : CloseIdle(r)
  BY <1>5 DEF CloseIdle
<1>6. CASE \E r \in Requests : Receive(r)
  BY <1>6 DEF Receive
<1>7. CASE BeginShutdown
  BY <1>7 DEF BeginShutdown
<1>8. CASE ShutdownDone
  BY <1>8 DEF ShutdownDone
<1>9. CASE Exchange
  BY <1>9 DEF Exchange
<1>10. CASE UNCHANGED vars
  BY <1>10 DEF vars
<1> QED
  BY <1>1, <1>2, <1>3, <1>4, <1>5, <1>6, <1>7, <1>8, <1>9, <1>10 DEF Next, Main, Serve

\* In every behaviour at most one code is received, and of the handlers that sent one
\* only its handler goes on.
THEOREM AuthInductive == Spec => []IInv
BY InitIInv, StepIInv, PTL DEF Spec

\* The success page is shown only to the browser whose code was received, and before
\* the process ends with a token, for any number of callbacks.
THEOREM TruthfulPages == Spec => []PagesTruthful
<1>1. IInv => PagesTruthful
  BY AuthAssumption DEF IInv, TypeOK, Sends, Receipt, PagesTruthful
<1> QED BY AuthInductive, <1>1, PTL

=============================================================================
