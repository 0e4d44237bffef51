----------------------------- MODULE MCJobQueue -----------------------------
(* JobQueue with a chat turn, the image of its tool call, and a plain image.  *)
EXTENDS JobQueue
CONSTANTS chat, drawn, plain, msg, c1

ChatAndImages == {chat, drawn, plain}
MCImageJobs == {drawn, plain}
MCMessages == {msg}
MCMessageOf == [j \in Jobs |-> IF j = plain THEN NoMessage ELSE msg]
MCChildOf == [j \in Jobs |-> IF j = chat THEN drawn ELSE NoJob]
MCClients == {c1}
=============================================================================
