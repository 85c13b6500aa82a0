------------------------------ MODULE HttpQuery ------------------------------
(***************************************************************************)
(* runtime/clickhouse.ts: a statement is one HTTP request.  Response,      *)
(* limits, errors and the deadline race to finish it; whoever is first     *)
(* closes the connection and, unless the server is known to be done, asks  *)
(* it on a second connection to replace the statement.                     *)
(***************************************************************************)
EXTENDS AdapterCall

VARIABLES sent,          (* request.on('finish'): the body left the client *)
          resp,          (* the response as far as its status              *)
          whole          (* response.complete                              *)

httpVars == <<sent, resp, whole>>

\* ok: status 200.  refused: any other status, with the error as its body.
Resp == {"none", "ok", "refused"}

HttpInit == /\ sent = [q \in Query |-> FALSE]
            /\ resp = [q \in Query |-> "none"]
            /\ whole = [q \in Query |-> FALSE]

HttpTypeOK == /\ sent \in [Query -> BOOLEAN]
              /\ resp \in [Query -> Resp]
              /\ whole \in [Query -> BOOLEAN]

-----------------------------------------------------------------------------
\* The adapter refuses the call (closed, policy, settings), or requests.
Request(q) == /\ engine[q] = "clickhouse" /\ at[q] = "called"
              /\ Settle(q, "error") \/ Go(q, "requesting")
              /\ sent' = [sent EXCEPT ![q] = FALSE]
              /\ resp' = [resp EXCEPT ![q] = "none"]
              /\ whole' = [whole EXCEPT ![q] = FALSE]
              /\ UNCHANGED work

Sent(q) == /\ at[q] = "requesting" /\ ~sent[q]
           /\ sent' = [sent EXCEPT ![q] = TRUE]
           /\ UNCHANGED <<at, due, answer, work, resp, whole>>

(***************************************************************************)
(* The server gets a request that was sent, at any time or never: the      *)
(* network may hold it back until the client has given up.  Node reports   *)
(* 'finish' in the turn in which the last of the body leaves, so that no   *)
(* event of the client comes between the two.                              *)
(***************************************************************************)
Arrives(q) == /\ engine[q] = "clickhouse" /\ at[q] # "called"
              /\ sent[q] /\ work[q] = "none"
              /\ SetWork(q, "running")
              /\ UNCHANGED <<at, due, answer, httpVars>>

\* The headers: the server has begun to answer, or refused the statement.  That
\* any status but 200 ends the statement is what clickhouse.ts:207 takes for
\* granted; a proxy that answers for the server (502, 504) could leave it running.
Headers(q) == /\ at[q] = "requesting" /\ resp[q] = "none"
              /\ \/ /\ work[q] \in {"running", "complete", "failed"}
                    /\ resp' = [resp EXCEPT ![q] = "ok"]
                    /\ UNCHANGED work
                 \/ /\ work[q] \in {"running", "failed"}
                    /\ resp' = [resp EXCEPT ![q] = "refused"]
                    /\ SetWork(q, "failed")
              /\ UNCHANGED <<at, due, answer, sent, whole>>

\* The last byte of the body, which the server sends when it is done.
LastByte(q) == /\ at[q] = "requesting" /\ resp[q] # "none" /\ ~whole[q]
               /\ work[q] \in {"complete", "failed"}
               /\ whole' = [whole EXCEPT ![q] = TRUE]
               /\ UNCHANGED <<at, due, answer, work, sent, resp>>

\* With cancel_http_readonly_queries_on_client_close the server stops a
\* read whose connection was closed.
ServerNotices(q) == /\ engine[q] = "clickhouse" /\ readOnly[q]
                    /\ at[q] \in {"cancelling", "settled"}
                    /\ work[q] = "running"
                    /\ SetWork(q, "stopped")
                    /\ UNCHANGED <<at, due, answer, httpVars>>

-----------------------------------------------------------------------------
\* Mutant: a response that began counts as a statement that has ended.
NeedsCancelOld(q) == sent[q] /\ resp[q] = "none"

NeedsCancel(q) == sent[q] /\ resp[q] \in {"none", "ok"} /\ ~whole[q]

\* finish: only the first call counts.
Finish(q, d) == IF NeedsCancel(q) THEN GoWith(q, "cancelling", d) ELSE Settle(q, d)

\* The stream ends: an exception the server wrote into it is an error.
HttpEnd(q) == /\ at[q] = "requesting" /\ resp[q] = "ok" /\ whole[q]
              /\ \/ work[q] = "complete" /\ Finish(q, "rows")
                 \/ Finish(q, "error")
              /\ UNCHANGED <<work, httpVars>>

\* parser.write returns false: rows or bytes reached the limit.
HttpCap(q) == /\ at[q] = "requesting" /\ resp[q] = "ok"
              /\ Finish(q, "capped")
              /\ UNCHANGED <<work, httpVars>>

\* The deadline, a lost or aborted connection, a redirect, an encoding or
\* a body that cannot be read, the end of an error response.
HttpError(q) == /\ at[q] = "requesting"
                /\ Finish(q, "error")
                /\ UNCHANGED <<work, httpVars>>

-----------------------------------------------------------------------------
\* cancel: the server replaced the statement, or knows none to replace.
CancelConfirmed(q) == /\ at[q] = "cancelling" /\ engine[q] = "clickhouse"
                      /\ StopWork(q)
                      /\ Settle(q, due[q])
                      /\ UNCHANGED httpVars

\* 750 ms have passed, or the replacement failed.
CancelUnconfirmed(q) == /\ at[q] = "cancelling" /\ engine[q] = "clickhouse"
                        /\ Settle(q, "unconfirmed")
                        /\ UNCHANGED <<work, httpVars>>

-----------------------------------------------------------------------------
HttpStep(q) == \/ Request(q) \/ HttpEnd(q) \/ HttpCap(q) \/ HttpError(q)
               \/ CancelConfirmed(q) \/ CancelUnconfirmed(q)

\* What the network and the server do, in their own time.
HttpElse(q) == \/ Sent(q) \/ Arrives(q) \/ Headers(q) \/ LastByte(q)
               \/ ServerNotices(q)

HttpNext(q) == HttpStep(q) \/ HttpElse(q)

=============================================================================
