------------------------------ MODULE McpServer ------------------------------
(***************************************************************************)
(* The transport of the MCP interface (internal/api/mcp/server.go).  A     *)
(* client opens an event stream, which makes a session with a channel of   *)
(* answers, and posts its calls; the handler of a call runs the tool and   *)
(* puts the answer into the channel of the session, from which the         *)
(* goroutine of the stream writes it.  Without a session the answer is the *)
(* body of the response.                                                   *)
(*                                                                         *)
(* What the tools do is part of the modules of the stores they use.  The   *)
(* protocol version of a session only fills a header, its initialized flag *)
(* is never read: both are left out, and so are keepalives.                *)
(***************************************************************************)
EXTENDS Naturals, Sequences, FiniteSets, SequencesExt

CONSTANTS
    McpStreams,     \* session ids, random and never used twice
    McpCalls,       \* posted messages
    NoStream,
    McpCap          \* make(chan rpcResponse, 16)

ASSUME McpAssumption == NoStream \notin McpStreams /\ McpCap \in Nat \ {0}

VARIABLES
    mcpSessions,    \* Server.sessions
    mcpStream,      \* stream -> where handleSSE is, and the answer it writes
    mcpCh,          \* stream -> session.messages
    mcpOut,         \* stream -> answers written
    mcpCall,        \* call -> where handleMessage is, its kind, its session
    mcpTaken        \* stream -> calls told that their answer will be streamed

mcpVars == <<mcpSessions, mcpStream, mcpCh, mcpOut, mcpCall, mcpTaken>>

McpInit ==
    /\ mcpSessions = {}
    /\ mcpStream = [s \in McpStreams |-> [pc |-> "none", msg |-> <<>>]]
    /\ mcpCh = [s \in McpStreams |-> <<>>]
    /\ mcpOut = [s \in McpStreams |-> <<>>]
    /\ mcpCall = [c \in McpCalls |-> [pc |-> "none", kind |-> "call", sid |-> NoStream]]
    /\ mcpTaken = [s \in McpStreams |-> <<>>]

(* handleSSE: the goroutine of a stream *)

McpAt(s, pc) == mcpStream[s].pc = pc
McpGo(s, pc, msg) == mcpStream' = [mcpStream EXCEPT ![s] = [pc |-> pc, msg |-> msg]]

\* setSession; the endpoint event that tells the client its session follows.
McpOpen(s) ==
    /\ McpAt(s, "none")
    /\ mcpSessions' = mcpSessions \cup {s}
    /\ McpGo(s, "endpoint", <<>>)
    /\ UNCHANGED <<mcpCh, mcpOut, mcpCall, mcpTaken>>

\* The endpoint event, or the answer taken from the channel, is written.
McpWrite(s) ==
    /\ mcpStream[s].pc \in {"endpoint", "write"}
    /\ mcpOut' = [mcpOut EXCEPT ![s] = @ \o mcpStream[s].msg]
    /\ McpGo(s, "select", <<>>)
    /\ UNCHANGED <<mcpSessions, mcpCh, mcpCall, mcpTaken>>

\* Mutant: the answer stays in the channel while it is written.
McpReceive_Peeks(s) ==
    /\ McpAt(s, "select") /\ mcpCh[s] # <<>>
    /\ McpGo(s, "write", <<Head(mcpCh[s])>>)
    /\ UNCHANGED <<mcpSessions, mcpCh, mcpOut, mcpCall, mcpTaken>>

\* case msg := <-sess.messages
McpReceive(s) ==
    /\ McpAt(s, "select") /\ mcpCh[s] # <<>>
    /\ mcpCh' = [mcpCh EXCEPT ![s] = Tail(@)]
    /\ McpGo(s, "write", <<Head(mcpCh[s])>>)
    /\ UNCHANGED <<mcpSessions, mcpOut, mcpCall, mcpTaken>>

\* The client has gone: the context is done, or a write (a keepalive in
\* "select") fails.
McpGone(s) ==
    /\ mcpStream[s].pc \in {"endpoint", "select", "write"}
    /\ McpGo(s, "ending", <<>>)
    /\ UNCHANGED <<mcpSessions, mcpCh, mcpOut, mcpCall, mcpTaken>>

\* Mutant: the session of a stream that has ended is not removed.
McpDelete_Keeps(s) ==
    /\ McpAt(s, "ending")
    /\ McpGo(s, "ended", <<>>)
    /\ UNCHANGED <<mcpSessions, mcpCh, mcpOut, mcpCall, mcpTaken>>

\* defer s.deleteSession(id)
McpDelete(s) ==
    /\ McpAt(s, "ending")
    /\ mcpSessions' = mcpSessions \ {s}
    /\ McpGo(s, "ended", <<>>)
    /\ UNCHANGED <<mcpCh, mcpOut, mcpCall, mcpTaken>>

(* handleMessage: the goroutine of a posted message *)

McpStep(c, from, to) == mcpCall[c].pc = from /\ mcpCall' = [mcpCall EXCEPT ![c].pc = to]

\* The streams a client has been told of.
McpAnnounced == {s \in McpStreams : mcpStream[s].pc \notin {"none", "endpoint"}}

\* A message arrives: a call, a notification or nothing that can be parsed.
McpPost(c, kind, sid) ==
    /\ mcpCall[c].pc = "none"
    /\ mcpCall' = [mcpCall EXCEPT ![c] = [pc |-> "posted", kind |-> kind, sid |-> sid]]
    /\ UNCHANGED <<mcpSessions, mcpStream, mcpCh, mcpOut, mcpTaken>>

\* Parse error or invalid request: answered at once.
McpInvalid(c) ==
    /\ mcpCall[c].kind = "bad" /\ McpStep(c, "posted", "inline")
    /\ UNCHANGED <<mcpSessions, mcpStream, mcpCh, mcpOut, mcpTaken>>

\* dispatch: the tool runs; a notification has no answer.
McpDispatch(c) ==
    /\ mcpCall[c].kind # "bad"
    /\ McpStep(c, "posted", IF mcpCall[c].kind = "note" THEN "noted" ELSE "ran")
    /\ UNCHANGED <<mcpSessions, mcpStream, mcpCh, mcpOut, mcpTaken>>

\* getSession: without a session the answer is written inline.
McpGetSession(c) ==
    /\ McpStep(c, "ran", IF mcpCall[c].sid \in mcpSessions THEN "found" ELSE "inline")
    /\ UNCHANGED <<mcpSessions, mcpStream, mcpCh, mcpOut, mcpTaken>>

\* The send to the channel does not wait; a full channel is an error.  The
\* session may have been removed since it was looked up.
McpSend(c) ==
    LET s == mcpCall[c].sid
        room == Len(mcpCh[s]) < McpCap
    IN  /\ McpStep(c, "found", IF room THEN "accepted" ELSE "full")
        /\ mcpCh' = IF room THEN [mcpCh EXCEPT ![s] = Append(@, c)] ELSE mcpCh
        /\ mcpTaken' = IF room THEN [mcpTaken EXCEPT ![s] = Append(@, c)] ELSE mcpTaken
        /\ UNCHANGED <<mcpSessions, mcpStream, mcpOut>>

McpLoop(s) == McpWrite(s) \/ McpReceive(s) \/ McpDelete(s)

McpNext ==
    \/ \E s \in McpStreams : McpOpen(s) \/ McpLoop(s) \/ McpGone(s)
    \/ \E c \in McpCalls :
         \/ \E kind \in {"call", "note", "bad"}, sid \in McpAnnounced \cup {NoStream} :
              McpPost(c, kind, sid)
         \/ McpInvalid(c) \/ McpDispatch(c) \/ McpGetSession(c) \/ McpSend(c)

\* The goroutine of a stream runs on; its writes return, with an error once
\* the client has gone.
McpFairness == \A s \in McpStreams : WF_mcpVars(McpLoop(s))

McpSpec == McpInit /\ [][McpNext]_mcpVars /\ McpFairness

-----------------------------------------------------------------------------
(* Properties                                                              *)

\* Channels stay within their capacity.
McpTypeOK ==
    /\ mcpSessions \subseteq McpStreams
    /\ \A s \in McpStreams : /\ mcpCh[s] \in Seq(McpCalls) /\ Len(mcpCh[s]) <= McpCap
                             /\ mcpOut[s] \in Seq(McpCalls)
    /\ \A c \in McpCalls : mcpCall[c].pc \in
         {"none", "posted", "ran", "noted", "found", "accepted", "full", "inline"}

\* A stream carries the answers that were promised to it, each once and in
\* the order in which they were accepted; what it has not written yet is in
\* its hands or in its channel, as long as it lives.  A call that was
\* answered inline, with its result or with "session queue full", is not
\* answered on a stream as well.
McpAnswersOnce ==
    \A s \in McpStreams :
        /\ IsPrefix(mcpOut[s], mcpTaken[s])
        /\ mcpStream[s].pc \in {"endpoint", "select", "write"} =>
               mcpOut[s] \o mcpStream[s].msg \o mcpCh[s] = mcpTaken[s]
        /\ \A i, j \in DOMAIN mcpTaken[s] : mcpTaken[s][i] = mcpTaken[s][j] => i = j
        /\ \A c \in ToSet(mcpTaken[s]) : mcpCall[c].pc = "accepted"

\* A stream with unwritten answers writes all that were promised to it, unless
\* it ends; then its session is removed, so that later calls are answered
\* inline.
McpAnswered ==
    \A s \in McpStreams :
        mcpOut[s] # mcpTaken[s] \/ mcpStream[s].pc = "ending" ~>
            \/ mcpStream[s].pc = "select" /\ mcpOut[s] = mcpTaken[s]
            \/ s \notin mcpSessions
=============================================================================
