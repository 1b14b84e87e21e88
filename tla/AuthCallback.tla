---------------------------- MODULE AuthCallback ----------------------------
(***************************************************************************)
(* cmd/auth: a local server waits for the callback of the OAuth consent     *)
(* page. The handlers of the requests pass their codes through an unbuffered *)
(* channel that the main goroutine reads once; then it shuts the server     *)
(* down, which waits for the handlers, and exchanges the code.              *)
(***************************************************************************)
CONSTANTS Requests,   \* the requests that browsers make
          Codes,      \* authorization codes
          NoCode,     \* the callback has no code
          Nobody      \* no code was received

ASSUME AuthAssumption == NoCode \notin Codes /\ Nobody \notin Requests

VARIABLES
    main,       \* where the main goroutine is
    exit,       \* how the process ended
    server,     \* of the goroutine that runs ListenAndServe
    conn,       \* conn[r]: how far the connection of r is
    code,       \* code[r]: the code in its query
    page,       \* page[r]: the page its browser shows
    received    \* the request whose code the main goroutine received

vars == <<main, exit, server, conn, code, page, received>>

TypeOK ==
    /\ main \in {"waiting", "received", "shutdown", "exchange", "ended"}
    /\ exit \in {"none", "token", "error"}
    /\ server \in {"starting", "listening", "closed"}
    /\ conn \in [Requests -> {"none", "connected", "sending", "returning", "answered",
                              "closed"}]
    /\ code \in [Requests -> Codes \cup {NoCode}]
    /\ page \in [Requests -> {"none", "success", "failure"}]
    /\ received \in Requests \cup {Nobody}

Init ==
    /\ main = "waiting" /\ exit = "none" /\ server = "starting"
    /\ conn = [r \in Requests |-> "none"]
    /\ code = [r \in Requests |-> NoCode]
    /\ page = [r \in Requests |-> "none"]
    /\ received = Nobody

Alive == main # "ended"

-----------------------------------------------------------------------------
(* The server *)

Listen ==
    /\ Alive /\ server = "starting"
    /\ server' = "listening"
    /\ UNCHANGED <<main, exit, conn, code, page, received>>

\* The port is taken, or accepting fails later: log.Fatalf ends the process.
ListenError ==
    /\ Alive /\ server # "closed"
    /\ main' = "ended" /\ exit' = "error"
    /\ UNCHANGED <<server, conn, code, page, received>>

\* Environment: a browser connects.
Connect(r) ==
    /\ Alive /\ server = "listening" /\ conn[r] = "none"
    /\ conn' = [conn EXCEPT ![r] = "connected"]
    /\ UNCHANGED <<main, exit, server, code, page, received>>

\* Faulty: an empty code is sent, too.
HandleFaulty(r) ==
    /\ Alive /\ conn[r] = "connected"
    /\ \E c \in Codes \cup {NoCode} : code' = [code EXCEPT ![r] = c]
    /\ conn' = [conn EXCEPT ![r] = "sending"]
    /\ UNCHANGED <<main, exit, server, page, received>>

\* A callback arrives. With a code, the handler sends it before it returns.
Handle(r) ==
    /\ Alive /\ conn[r] = "connected"
    /\ \E c \in Codes \cup {NoCode} :
          /\ code' = [code EXCEPT ![r] = c]
          /\ conn' = [conn EXCEPT ![r] = IF c = NoCode THEN "returning" ELSE "sending"]
    /\ UNCHANGED <<main, exit, server, page, received>>

\* A handler has returned: only now the buffered page reaches the browser.
Flush(r) ==
    /\ Alive /\ conn[r] = "returning"
    /\ conn' = [conn EXCEPT ![r] = "answered"]
    /\ page' = [page EXCEPT ![r] = IF code[r] = NoCode THEN "failure" ELSE "success"]
    /\ UNCHANGED <<main, exit, server, code, received>>

-----------------------------------------------------------------------------
(* The main goroutine *)

\* Faulty: the handler goes on only after the server is shut down.
ReceiveFaulty(r) ==
    /\ main = "waiting" /\ conn[r] = "sending"
    /\ main' = "received" /\ received' = r
    /\ UNCHANGED <<exit, server, conn, code, page>>

\* The only receive: it completes the send of one handler.
Receive(r) ==
    /\ main = "waiting" /\ conn[r] = "sending"
    /\ main' = "received" /\ received' = r
    /\ conn' = [conn EXCEPT ![r] = "returning"]
    /\ UNCHANGED <<exit, server, code, page>>

\* Shutdown closes the listener; what is connected may still send its request.
BeginShutdown ==
    /\ main = "received"
    /\ main' = "shutdown" /\ server' = "closed"
    /\ UNCHANGED <<exit, conn, code, page, received>>

\* A connection that has been silent for five seconds is closed.
CloseIdle(r) ==
    /\ main = "shutdown" /\ conn[r] = "connected"
    /\ conn' = [conn EXCEPT ![r] = "closed"]
    /\ UNCHANGED <<main, exit, server, code, page, received>>

\* Faulty: the server is closed without waiting for its handlers.
ShutdownDoneFaulty ==
    /\ main = "shutdown"
    /\ main' = "exchange"
    /\ UNCHANGED <<exit, server, conn, code, page, received>>

\* Shutdown waits for all handlers, without a deadline.
ShutdownDone ==
    /\ main = "shutdown"
    /\ \A r \in Requests : conn[r] \in {"none", "answered", "closed"}
    /\ main' = "exchange"
    /\ UNCHANGED <<exit, server, conn, code, page, received>>

\* The code is exchanged for a token, or rejected.
Exchange ==
    /\ main = "exchange"
    /\ main' = "ended" /\ exit' \in {"token", "error"}
    /\ UNCHANGED <<server, conn, code, page, received>>

Main == (\E r \in Requests : Receive(r)) \/ BeginShutdown \/ ShutdownDone \/ Exchange
Serve(r) == Flush(r) \/ CloseIdle(r)

Next ==
    \/ Main
    \/ Listen \/ ListenError
    \/ \E r \in Requests : Connect(r) \/ Handle(r) \/ Serve(r)

\* Goroutines that can run do run, and the token endpoint answers. Browsers need not
\* connect, nor send anything once they are connected.
Spec ==
    /\ Init /\ [][Next]_vars
    /\ WF_vars(Main) /\ WF_vars(Listen)
    /\ \A r \in Requests : WF_vars(Serve(r))

-----------------------------------------------------------------------------
(* Properties *)

\* The page that reports success is shown only for the code that was received, and is
\* shown before the process ends with a token: that is what Shutdown waits for. (The code
\* is exchanged later, so that the page says nothing of the exchange.)
PagesTruthful ==
    /\ \A r \in Requests : page[r] = "success" => r = received
    /\ exit = "token" => received # Nobody /\ page[received] = "success"

\* The inductive invariant behind PagesTruthful. A handler sends only a code. Of those
\* that sent one, the received one alone has returned: the others block for ever.
Sends ==
    \A r \in Requests :
        /\ conn[r] = "sending" => code[r] # NoCode
        /\ conn[r] \in {"returning", "answered"} /\ code[r] # NoCode => r = received
        /\ page[r] # "none" => conn[r] = "answered"
        /\ conn[r] = "answered" /\ code[r] # NoCode => page[r] = "success"
        /\ page[r] = "success" => code[r] # NoCode

\* No code is used before it was received, and the exchange waits for its page.
Receipt ==
    /\ main = "waiting" => received = Nobody
    /\ main \in {"received", "shutdown", "exchange"} => received # Nobody
    /\ received # Nobody => /\ code[received] # NoCode
                            /\ conn[received] \in {"returning", "answered"}
    /\ main = "exchange" => conn[received] = "answered"
    /\ exit = "token" => received # Nobody /\ conn[received] = "answered"

IInv == TypeOK /\ Sends /\ Receipt

\* Another code arrived before the shutdown was over: its handler blocks for ever on
\* the channel, and Shutdown waits for that handler.
SecondCode ==
    main = "shutdown" /\ \E r \in Requests \ {received} : conn[r] = "sending" /\ code[r] # NoCode

\* Once there is a code the helper ends, and the only thing that can keep it from ending
\* is a second code.
EndsUnlessSecondCode ==
    (\E r \in Requests : conn[r] = "sending") ~> (~Alive \/ SecondCode)

=============================================================================
