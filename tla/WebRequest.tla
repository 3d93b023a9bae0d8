----------------------------- MODULE WebRequest -----------------------------
(* A web request (webrequest.c): the thread that performs it, in which libcurl *)
(* calls back with headers and data, and another that reads what has come when *)
(* it is told. Sizes are in units of what one callback may bring.              *)
EXTENDS Integers

CONSTANTS iWebRequestProgressMinSize,
          MaxSize, MaxRequests     \* bounds of the models: of a response, and on their number

VARIABLES web,         \* what the object has
          curl,        \* what libcurl has been told, and keeps
          phase,       \* how far the performing thread has come
          reply,       \* what the server has sent in this request
          ready,       \* the reader has been told that there is something
          taken,       \* what it has read in this request
          careless,    \* a get followed a post, with nothing cleared
          performed

webVars == <<web, curl, phase, reply, ready, taken, careless, performed>>

\* configure_WebRequest_: no request body, no list of headers.
Configured == [post |-> FALSE, list |-> "none", fields |-> 0]

Init == /\ web = [result |-> 0, receivedSize |-> 0, lastNotifySize |-> 0, contentLength |-> 0,
                  headers |-> 0, progress |-> 0, postData |-> 0]
        /\ curl = Configured /\ phase = "idle"
        /\ reply = [size |-> 0, headers |-> 0, length |-> 0]
        /\ ready = FALSE /\ taken = 0 /\ careless = FALSE /\ performed = 0

Set(field, value) == web' = [web EXCEPT ![field] = value]
Goes(from, to) == phase = from /\ phase' = to

-----------------------------------------------------------------------------
(* Between requests.                                                         *)

clear_WebRequest == /\ phase = "idle" /\ ~ready
                    /\ curl' = Configured
                    /\ web' = [web EXCEPT !.postData = 0, !.result = 0, !.headers = 0]
                    /\ UNCHANGED <<phase, reply, ready, taken, careless, performed>>

setPostData_WebRequest(data) == /\ phase = "idle" /\ Set("postData", data)
                                /\ UNCHANGED <<curl, phase, reply, ready, taken, careless, performed>>

(* execute_WebRequest_. The result is cleared without the mutex: the reader  *)
(* is taken to have read what it was told of.                                *)
Execute == /\ performed < MaxRequests /\ ~ready /\ performed' = performed + 1
           /\ web' = [web EXCEPT !.contentLength = 0, !.receivedSize = 0, !.lastNotifySize = 0,
                                 !.result = 0, !.headers = 0, !.progress = 0]
           /\ reply' = [size |-> 0, headers |-> 0, length |-> 0] /\ taken' = 0
           /\ UNCHANGED ready

get_WebRequest == /\ Goes("idle", "perform") /\ Execute
                  /\ careless' = (careless \/ curl.list = "freed")
                  /\ UNCHANGED curl
post_WebRequest == /\ Goes("idle", "perform") /\ Execute
                   /\ curl' = [post |-> TRUE, list |-> "own", fields |-> web.postData]
                   /\ UNCHANGED careless

-----------------------------------------------------------------------------
(* curl_easy_perform() and its callbacks. A redirection has headers, too.    *)

headerCallback_WebRequest_(length) ==
  /\ Goes("perform", "perform") /\ reply.size = 0 /\ reply.headers < 2
  /\ reply' = [reply EXCEPT !.headers = @ + 1, !.length = length]
  /\ web' = [web EXCEPT !.headers = @ + 1, !.contentLength = IF length = 0 THEN @ ELSE length]
  /\ UNCHANGED <<curl, ready, taken, careless, performed>>

(* The data is written under the mutex; then the observers are told.         *)
dataCallback_WebRequest_(len) ==
  /\ Goes("perform", "progress") /\ reply.size + len <= MaxSize
  /\ reply' = [reply EXCEPT !.size = @ + len]
  /\ web' = [web EXCEPT !.result = @ + len, !.receivedSize = @ + len]
  /\ UNCHANGED <<curl, ready, taken, careless, performed>>

NotifyProgress ==
  /\ Goes("progress", "ready")
  /\ IF web.receivedSize - web.lastNotifySize > iWebRequestProgressMinSize
     THEN web' = [web EXCEPT !.lastNotifySize = web.receivedSize, !.progress = @ + 1]
     ELSE UNCHANGED web
  /\ UNCHANGED <<curl, reply, ready, taken, careless, performed>>

NotifyReadyRead == /\ Goes("ready", "perform") /\ ready' = TRUE
                   /\ UNCHANGED <<web, curl, reply, taken, careless, performed>>

(* The response ends, or fails. The list of headers of a post is freed.      *)
Return == /\ Goes("perform", "idle")
          /\ curl' = [curl EXCEPT !.list = IF @ = "own" THEN "freed" ELSE @]
          /\ UNCHANGED <<web, reply, ready, taken, careless, performed>>

(* The reader, by the mutex while nothing is being written.                  *)
read_WebRequest == /\ ready /\ ready' = FALSE
                   /\ taken' = taken + web.result /\ Set("result", 0)
                   /\ UNCHANGED <<curl, phase, reply, careless, performed>>

PerformStep == (\E len \in 1..2 : dataCallback_WebRequest_(len)) \/ NotifyProgress \/ NotifyReadyRead \/ Return

Next == \/ clear_WebRequest \/ (\E data \in 1..2 : setPostData_WebRequest(data))
        \/ get_WebRequest \/ post_WebRequest
        \/ (\E length \in 0..1 : headerCallback_WebRequest_(length))
        \/ PerformStep \/ read_WebRequest

(* libcurl gives up after ten seconds; the reader reads when it is told.     *)
Fairness == WF_webVars(PerformStep) /\ WF_webVars(read_WebRequest)

-----------------------------------------------------------------------------

(* What has come has been read or can be, and its size is right; progress is *)
(* told once for each stretch that is longer than the least one.             *)
ResponseIsWhole ==
  /\ web.receivedSize = reply.size /\ taken + web.result = reply.size
  /\ web.headers <= reply.headers
  /\ web.progress * (iWebRequestProgressMinSize + 1) <= reply.size

(* A request has a list of headers that is there, unless a get follows a     *)
(* post and nothing has been cleared.                                        *)
ListIsThere == phase # "idle" => curl.list # "freed" \/ careless

(* Everything that has come is read.                                         *)
AllIsRead == phase # "idle" /\ web.result > 0 ~> web.result = 0
=============================================================================
