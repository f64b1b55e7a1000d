---------------------------- MODULE FallbackSite ----------------------------
(***************************************************************************)
(* What the server does with a request that is not a tunnel: it collects   *)
(* the body and answers from a directory or from an upstream site.  The    *)
(* directory may be updated while a file is being served; the upstream may *)
(* fail or stall at every step.  The permit is in ServerAdmission.         *)
(***************************************************************************)
EXTENDS Integers, Sequences, SequencesExt, FiniteSetsExt

CONSTANTS Paths,        \* request paths, as components
          Site,         \* the tree at first: path -> [kind, size, to]
          StaticDir, Index,
          Updates,      \* nodes a path below StaticDir may be changed to
          MaxUpdates,   \* bound on changes of the tree
          HeaderSets,   \* [names, nominated] of requests and upstream responses
          Chunks,       \* sizes of body chunks
          MaxRequest, MaxResponse, MaxStatic   \* limits in chunk units

VARIABLES handler,      \* "static" or "proxy"
          path, headers,
          stage,        \* collect, then the steps below, then done, failed or dropped
          body,         \* bytes of request body collected
          fs, updates,  \* the tree and how often it changed
          relinked,     \* a link was put on the checked path after the check
          root, file, size,     \* canonical paths and metadata read so far
          task,         \* the spawned upstream connection
          forwarded,    \* header names sent upstream
          response      \* [status, size, headers, from]

site == <<fs, updates, relinked>>
vars == <<handler, path, headers, stage, body, site, root, file, size, task, forwarded, response>>

Answer(status, n, h) == [status |-> status, size |-> n, headers |-> h, from |-> << >>]
None == Answer(0, 0, {})
ContentType == {"content-type"}

-----------------------------------------------------------------------------
\* The directory.
UpTo(p, i) == SubSeq(p, 1, i)

\* The first link on a path is followed.
Follow(p) ==
    LET links == {i \in DOMAIN p : UpTo(p, i) \in DOMAIN fs /\ fs[UpTo(p, i)].kind = "link"}
    IN  IF links = {} THEN p
        ELSE LET i == Min(links) IN fs[UpTo(p, i)].to \o SubSeq(p, i + 1, Len(p))
\* Where a path leads.  (No path has more than two links in a row.)
canonicalize(p) == Follow(Follow(p))
Exists(p) ==
    LET q == canonicalize(p)
    IN  \A i \in DOMAIN q : UpTo(q, i) \in DOMAIN fs /\ fs[UpTo(q, i)].kind # "missing"

resolve_path(p) ==
    LET normal == SelectSeq(p, LAMBDA c : c \notin {"..", "."})
    IN StaticDir \o (IF p = << >> THEN <<Index>> ELSE normal)

Static(s) == handler = "static" /\ stage = s
Ends(r) == stage' = "done" /\ response' = r
NotFound == Answer(404, 0, ContentType)
Internal == Answer(500, 0, ContentType)
KeepProxy == UNCHANGED <<handler, path, headers, body, task, forwarded>>

CanonicalRoot ==
    /\ Static("root") /\ KeepProxy /\ UNCHANGED <<site, file, size>>
    /\ \/ Exists(StaticDir) /\ root' = StaticDir /\ stage' = "file" /\ UNCHANGED response
       \/ ~Exists(StaticDir) /\ Ends(NotFound) /\ UNCHANGED root
       \/ Ends(Internal) /\ UNCHANGED root

\* Mutant: the path is compared before links are followed.
CanonicalFile_Raw ==
    /\ Static("file") /\ KeepProxy /\ UNCHANGED <<site, root, size>>
    /\ LET p == resolve_path(path) IN
       \/ Exists(p) /\ file' = canonicalize(p) /\ IsPrefix(root, p)
          /\ stage' = "metadata" /\ UNCHANGED response
       \/ ~Exists(p) /\ Ends(NotFound) /\ UNCHANGED file
       \/ Ends(Internal) /\ UNCHANGED file

CanonicalFile ==
    /\ Static("file") /\ KeepProxy /\ UNCHANGED <<site, root, size>>
    /\ LET p == resolve_path(path) IN
       \/ /\ Exists(p) /\ file' = canonicalize(p)
          /\ IF IsPrefix(root, file') THEN stage' = "metadata" /\ UNCHANGED response ELSE Ends(NotFound)
       \/ ~Exists(p) /\ Ends(NotFound) /\ UNCHANGED file
       \/ Ends(Internal) /\ UNCHANGED file

\* fs::metadata, which follows links again, and its two checks.
Metadata ==
    /\ Static("metadata") /\ KeepProxy /\ UNCHANGED <<site, root, file>>
    /\ \/ ~Exists(file) /\ Ends(NotFound) /\ UNCHANGED size
       \/ Ends(Internal) /\ UNCHANGED size
       \/ /\ Exists(file)
          /\ LET node == fs[canonicalize(file)] IN
             /\ size' = node.size
             /\ IF node.kind # "file" THEN Ends(NotFound)
                ELSE IF node.size > MaxStatic THEN Ends(Answer(413, 0, ContentType))
                ELSE stage' = "read" /\ UNCHANGED response

\* fs::read follows links once more.
Read ==
    /\ Static("read") /\ KeepProxy /\ UNCHANGED <<site, root, file, size>>
    /\ \/ ~Exists(file) /\ Ends(NotFound)
       \/ Ends(Internal)
       \/ LET p == canonicalize(file) IN
          /\ Exists(file) /\ fs[p].kind = "file"
          /\ Ends([Answer(200, fs[p].size, ContentType) EXCEPT !.from = p])

\* Someone updates the site: a file or a directory below it goes, is replaced, or
\* becomes a link.
SiteChanges ==
    /\ updates < MaxUpdates /\ updates' = updates + 1
    /\ \E p \in DOMAIN fs : \E node \in Updates :
          /\ IsStrictPrefix(StaticDir, p) /\ fs[p].kind \in {"file", "dir"}
          /\ fs[p].kind = "dir" => node.kind # "file"
          /\ fs' = [fs EXCEPT ![p] = node]
          /\ relinked' = (relinked \/ (stage \in {"metadata", "read"} /\ node.kind = "link" /\ IsPrefix(p, file)))
    /\ UNCHANGED <<handler, path, headers, stage, body, root, file, size, task, forwarded, response>>

-----------------------------------------------------------------------------
\* The upstream.
HopByHop == {"connection", "keep-alive", "proxy-authenticate", "proxy-authorization", "proxy-connection", "te",
             "trailer", "transfer-encoding", "upgrade"}

connection_header_names(h) == IF "connection" \in h.names THEN h.nominated ELSE {}

is_forwardable_request_header(name, h) ==
    name \notin {"host", "content-length", "transfer-encoding"} \cup HopByHop \cup connection_header_names(h)

\* Mutant: only the fixed names are removed.
strip_hop_by_hop_headers_Fixed(h) == h.names \ HopByHop

strip_hop_by_hop_headers(h) == h.names \ (HopByHop \cup connection_header_names(h))

Proxy(s) == handler = "proxy" /\ stage = s
KeepSite == UNCHANGED <<handler, path, headers, body, site, root, file, size>>
BadGateway == Answer(502, 0, ContentType)

\* Connecting and the HTTP handshake: each succeeds, fails or times out.
Connect ==
    /\ Proxy("connect") /\ KeepSite /\ UNCHANGED <<task, forwarded>>
    /\ (stage' = "handshake" /\ UNCHANGED response) \/ Ends(BadGateway)

\* Mutant: no timeout, and an upstream that says nothing to a request for the index.
Handshake_NoTimeout ==
    /\ Proxy("handshake") /\ path # << >> /\ KeepSite /\ UNCHANGED forwarded
    /\ stage' = "send" /\ task' = "running" /\ UNCHANGED response

Handshake ==
    /\ Proxy("handshake") /\ KeepSite /\ UNCHANGED forwarded
    /\ \/ stage' = "send" /\ task' = "running" /\ UNCHANGED response
       \/ Ends(BadGateway) /\ UNCHANGED task

SendRequest ==
    /\ Proxy("send") /\ KeepSite /\ UNCHANGED <<task, response>>
    /\ forwarded' = {"host", "connection"} \cup {n \in headers.names : is_forwardable_request_header(n, headers)}
    /\ stage' = "body"

\* Mutant: the connection is dropped only after a response.
ProxyResult_NoAbort ==
    /\ Proxy("body") /\ KeepSite /\ UNCHANGED forwarded
    /\ \/ /\ \E h \in HeaderSets, n \in 0 .. MaxResponse : Ends(Answer(200, n, strip_hop_by_hop_headers(h)))
          /\ task' = "aborted"
       \/ Ends(BadGateway) /\ UNCHANGED task

\* The response and its limited body, an error, a body beyond the limit or a timeout; the
\* connection is aborted in every case.
ProxyResult ==
    /\ Proxy("body") /\ KeepSite /\ UNCHANGED forwarded
    /\ \/ \E h \in HeaderSets, n \in 0 .. MaxResponse : Ends(Answer(200, n, strip_hop_by_hop_headers(h)))
       \/ Ends(BadGateway)
    /\ task' = "aborted"

\* The client's connection ends or the server shuts down: the handler is dropped where it
\* waits, and the upstream connection it spawned is left to hyper.
Dropped ==
    /\ stage \notin {"done", "failed", "dropped"} /\ stage' = "dropped"
    /\ UNCHANGED <<handler, path, headers, body, site, root, file, size, task, forwarded, response>>

\* hyper (external): a connection whose sender was dropped ends.
ConnectionEnds ==
    /\ task = "running" /\ stage = "dropped" /\ task' = "ended"
    /\ UNCHANGED <<handler, path, headers, stage, body, site, root, file, size, forwarded, response>>

-----------------------------------------------------------------------------
\* Mutant: the chunk that crosses the limit is still kept.
collect_fallback_request_body_After ==
    /\ stage = "collect"
    /\ \/ \E n \in Chunks : IF body > MaxRequest THEN stage' = "failed" /\ UNCHANGED body
                            ELSE body' = body + n /\ UNCHANGED stage
       \/ stage' = (IF handler = "static" THEN "root" ELSE "connect") /\ UNCHANGED body
       \/ stage' = "failed" /\ UNCHANGED body
    /\ UNCHANGED <<handler, path, headers, site, root, file, size, task, forwarded, response>>

\* One chunk, the end of the stream, or its reset.  Nothing limits how long it takes.
collect_fallback_request_body ==
    /\ stage = "collect"
    /\ \/ \E n \in Chunks : IF body + n > MaxRequest THEN stage' = "failed" /\ UNCHANGED body
                            ELSE body' = body + n /\ UNCHANGED stage
       \/ stage' = (IF handler = "static" THEN "root" ELSE "connect") /\ UNCHANGED body
       \/ stage' = "failed" /\ UNCHANGED body
    /\ UNCHANGED <<handler, path, headers, site, root, file, size, task, forwarded, response>>

Init ==
    /\ handler \in {"static", "proxy"} /\ path \in Paths /\ headers \in HeaderSets
    /\ stage = "collect" /\ body = 0 /\ fs = Site /\ updates = 0 /\ relinked = FALSE
    /\ root = << >> /\ file = << >> /\ size = 0 /\ task = "none" /\ forwarded = {} /\ response = None

StaticStep == CanonicalRoot \/ CanonicalFile \/ Metadata \/ Read
ProxyStep  == Connect \/ Handshake \/ SendRequest \/ ProxyResult

Next == collect_fallback_request_body \/ StaticStep \/ ProxyStep \/ SiteChanges \/ Dropped \/ ConnectionEnds
Spec == Init /\ [][Next]_vars

-----------------------------------------------------------------------------
\* What is served comes from below the directory, wherever the links lead that were
\* there when the path was checked, and whatever else happens to the site; and its
\* size was within the limit when it was read.  The check is made once: of a path on
\* which a link is put after it nothing is said.
ServedIsInside ==
    (handler = "static" /\ response.status = 200 /\ ~relinked) =>
        IsPrefix(StaticDir, response.from) /\ size <= MaxStatic

\* Neither side sees a header that concerns the other side's connection only, and no
\* other header is lost on the way up.
HeadersAreEndToEnd ==
    /\ forwarded # {} =>
          /\ forwarded \cap (HopByHop \cup connection_header_names(headers)) = {"connection"}
          /\ \A n \in headers.names \ (HopByHop \cup {"content-length"} \cup headers.nominated) : n \in forwarded
    /\ response # None => response.headers \cap HopByHop = {}
    /\ (handler = "proxy" /\ response.status = 200) =>
          \E h \in HeaderSets : response.headers = {n \in h.names : n \notin HopByHop /\ n \notin h.nominated}

\* When the handler answers, the upstream connection it opened is aborted: a stalled or
\* oversized upstream leaves nothing behind.
NothingLeftBehind == stage = "done" => task # "running"

\* The collected body stays within its limit whatever the sizes of the chunks.
RequestBounded == body <= MaxRequest

\* A request whose body ends is answered, refused or dropped, and no upstream
\* connection outlives it for ever.  A peer that leaves its body open is waited for:
\* collect_fallback_request_body has no timer.
FallbackEnds ==
    \/ <>(stage \in {"done", "failed", "dropped"} /\ task # "running")
    \/ <>[](stage = "collect")
=============================================================================
