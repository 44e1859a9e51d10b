------------------------------ MODULE S3Server ------------------------------
(***************************************************************************)
(* The S3Server of src/s3.go under concurrent requests.                   *)
(*                                                                         *)
(* net/http runs ServeHTTP in one goroutine per request; a process of    *)
(* Procs is such a goroutine, serving one request after another.  The     *)
(* store is the filesystem below the storage root: a set of directories,  *)
(* a map from file paths to inodes, and the bytes of every inode.  An     *)
(* inode, not a path, is what an open *os.File reads, so a GET that has   *)
(* opened a file keeps reading that inode whatever happens to the path.   *)
(* Every backend method takes the one sync.RWMutex s.mu; its state is     *)
(* modelled the way sync.RWMutex keeps it: the readers that called RLock, *)
(* those of them blocked behind a writer, the writer holding the inner    *)
(* mutex, and the readers that writer still waits for.                    *)
(***************************************************************************)
EXTENDS S3Paths, Integers, FiniteSets, Functions

CONSTANTS
    Procs,          \* request goroutines
    NoProc,         \* no goroutine (model value)
    Methods,        \* HTTP methods the clients send
    URLPaths,       \* request paths as sent (r.URL.EscapedPath())
    Payloads,       \* request bodies of PUT, as sequences of bytes
    QueryPrefixes,       \* values of the "prefix" query parameter
    MaxInode,       \* inodes are 1..MaxInode
    DirSize,        \* the size os.Stat reports for a directory
    NoHandle,       \* no open file (model value)
    DirHandle,      \* an open directory (model value)
    BodyMayFail,    \* reading a PUT body may fail (client gone, timeout)
    CloseMayFail,   \* closing a written file may fail (write-back error)
    WriteMayFail,   \* writing a response body may fail (client gone, timeout)
    Mux             \* requests pass through runS3Server's ServeMux

Inodes == 1 .. MaxInode

VARIABLES
    dirs,       \* directories that exist (absolute paths)
    files,      \* regular files that exist: path -> inode
    data,       \* inode -> bytes
    writer,     \* goroutine holding s.mu's writer mutex, or NoProc
    readers,    \* goroutines that have called s.mu.RLock and not RUnlock
    rblocked,   \* those of readers waiting for the writer to Unlock
    readerWait, \* readers the writer waits for before it holds s.mu
    pc,         \* where each goroutine is in ServeHTTP
    h,          \* each goroutine's request and handler locals
    resp,       \* status each goroutine's response carries (0: none yet)
    body,       \* bytes of the object sent in each GET response
    logged,     \* status the logging middleware's responseWriter recorded
    closeErr,   \* the deferred f.Close() of the goroutine's last PUT failed
    envelope,   \* the names the XML answer of each goroutine's listing carried
    acked       \* ghost: path -> payload of the PUT last answered 200 there

fsVars   == <<dirs, files, data>>
lockVars == <<writer, readers, rblocked, readerWait>>
httpVars == <<resp, logged, envelope>>
vars     == <<dirs, files, data, writer, readers, rblocked, readerWait,
              pc, h, resp, body, logged, closeErr, envelope, acked>>

Ops == {"ListBuckets", "CreateBucket", "DeleteBucket", "ListObjects",
        "PutObject", "GetObject", "DeleteObject", "MethodNotAllowed",
        "Health", "Redirect"}

\* The route runS3Server registers beside the S3 handler.
HealthPath == <<"/", "h", "e", "a", "l", "t", "h">>

\* The (bucket, key) ServeHTTP parses from each request path, and the paths
\* the mux finds unclean (both depend on the path alone).
ParsedURL == [u \in URLPaths |-> ParseRequestPath(Unescape(u))]
Unclean   == { u \in URLPaths : ~IsCleanURL(u) }

\* The routing of ServeHTTP: which backend method a request reaches.
Route(method, r) ==
    CASE r.path = <<>> /\ method = "GET"   -> "ListBuckets"
      [] method = "PUT"    -> IF r.key = <<>> THEN "CreateBucket" ELSE "PutObject"
      [] method = "GET"    -> IF r.key = <<>> THEN "ListObjects"  ELSE "GetObject"
      [] method = "DELETE" -> IF r.key = <<>> THEN "DeleteBucket" ELSE "DeleteObject"
      [] OTHER             -> "MethodNotAllowed"

\* The handler runS3Server's ServeMux picks from the escaped path u: a path
\* that is not clean is redirected, "/health" goes to the health check,
\* everything else to S3Server, whose r is parsed from the decoded path.
\* Without the mux every request reaches ServeHTTP.
Dispatch(method, u, r) ==
    CASE Mux /\ u \in Unclean  -> "Redirect"
      [] Mux /\ u = HealthPath -> "Health"
      [] OTHER                -> Route(method, r)

\* Variant in which PutObject takes s.mu.RLock() as the readers do.
LockKindPutRead(op) ==
    IF op \in {"ListBuckets", "GetObject", "ListObjects", "PutObject"} THEN "read" ELSE "write"

\* Which side of s.mu each backend method takes.
LockKind(op) ==
    IF op \in {"ListBuckets", "GetObject", "ListObjects"} THEN "read" ELSE "write"

NoReq == [op |-> "none", method |-> "none", bucket |-> <<>>, key |-> <<>>, path |-> <<>>,
          payload |-> <<>>, prefix |-> <<>>, fd |-> NoHandle, size |-> 0,
          rest |-> <<>>, snap |-> <<>>, prev |-> {}]

\* What a client learns from the XML answer of a listing: the bucket names
\* of ListAllMyBucketsResult, or the keys of ListBucketResult, and whether
\* the whole document reached it.  Names, dates, sizes and the namespace
\* are formatting and are left out.
Envelope(complete, names) == [complete |-> complete, names |-> names]

-----------------------------------------------------------------------------
(* The filesystem calls of the backend.                                    *)

\* os.Stat(p) / os.Lstat(p) succeeds.
Exists(p) == p \in dirs \/ p \in DOMAIN files

IsEmptyDir(p) ==
    /\ p \in dirs
    /\ \A q \in dirs \cup DOMAIN files : ~IsStrictPrefix(p, q)

\* os.MkdirAll(p) fails when p or one of its ancestors is a regular file.
MkdirAllOK(p) == \A a \in Ancestors(p) : a \notin DOMAIN files

\* os.Remove(p) removes a regular file or an empty directory.
RemoveOK(p) == p \in DOMAIN files \/ (IsEmptyDir(p) /\ p # <<>>)

\* The bytes of the inodes in use; an inode nothing refers to any more is
\* unobservable and is given empty contents.
Scrub(live) == [i \in Inodes |-> IF i \in live THEN data[i] ELSE <<>>]

\* os.Remove(p): the path is gone, whichever kind it was; its inode lives
\* on while a GET still has it open.
Unlink(p) ==
    LET rest == Restrict(files, DOMAIN files \ {p}) IN
    /\ dirs' = dirs \ {p}
    /\ files' = rest
    /\ data' = Scrub(Range(rest) \cup {h[q].fd : q \in Procs})

\* Inodes no path and no open file refers to.
FreeInodes ==
    Inodes \ (Range(files) \cup {h[q].fd : q \in Procs})

-----------------------------------------------------------------------------
TypeOK ==
    /\ dirs \subseteq Seq(Str)
    /\ DOMAIN files \subseteq Seq(Str)
    /\ Range(files) \subseteq Inodes
    /\ data \in [Inodes -> Seq(UNION {Range(x) : x \in Payloads})]
    /\ writer \in Procs \cup {NoProc}
    /\ readerWait \subseteq readers
    /\ rblocked \subseteq readers
    /\ readers \subseteq Procs
    /\ pc \in [Procs -> {"idle", "health", "lock", "rwait", "wwait", "op", "copy", "stream"}]
    /\ \A p \in Procs : h[p].op \in Ops \cup {"none"}
                        /\ h[p].fd \in Inodes \cup {NoHandle, DirHandle}
    /\ resp \in [Procs -> {0, 200, 204, 301, 404, 405, 500}]
    /\ logged \in [Procs -> {0, 200, 204, 301, 404, 405, 500}]
    /\ closeErr \in [Procs -> BOOLEAN]
    /\ envelope \in [Procs -> [complete : BOOLEAN, names : SUBSET Str]]
    /\ DOMAIN acked \subseteq DOMAIN files

-----------------------------------------------------------------------------
Init ==
    /\ dirs = Ancestors(Root)                 \* NewS3Server: MkdirAll(root)
    /\ files = <<>>
    /\ data = [i \in Inodes |-> <<>>]
    /\ writer = NoProc
    /\ readers = {}
    /\ rblocked = {}
    /\ readerWait = {}
    /\ pc = [p \in Procs |-> "idle"]
    /\ h = [p \in Procs |-> NoReq]
    /\ resp = [p \in Procs |-> 0]
    /\ body = [p \in Procs |-> <<>>]
    /\ logged = [p \in Procs |-> 0]
    /\ closeErr = [p \in Procs |-> FALSE]
    /\ envelope = [p \in Procs |-> Envelope(FALSE, {})]
    /\ acked = <<>>

\* loggingMiddleware hands ServeHTTP a responseWriter whose statusCode
\* starts at http.StatusOK, and prints that statusCode when it returns.
WrapResponseWriter(p) == logged' = [logged EXCEPT ![p] = 200]

\* A request arrives; loggingMiddleware wraps the ResponseWriter in a
\* responseWriter whose statusCode starts at 200, and ServeHTTP routes the
\* request.  A method it does not serve is answered 405 at once; any other
\* request goes to its backend method, whose first statement takes s.mu.
\* Behind the mux, an unclean path is answered 301 at once and "/health"
\* goes to the health check.
Receive(p) ==
    /\ pc[p] = "idle"
    /\ \E m \in Methods, u \in URLPaths :
         LET r  == ParsedURL[u]
             op == Dispatch(m, u, r)
             status == IF op = "Redirect" THEN 301 ELSE 405
         IN  \E pl \in IF op = "PutObject" THEN Payloads ELSE {<<>>},
               pf \in IF op = "ListObjects" THEN QueryPrefixes ELSE {<<>>} :
             IF op \in {"MethodNotAllowed", "Redirect"}
               THEN /\ resp' = [resp EXCEPT ![p] = status]
                    /\ logged' = [logged EXCEPT ![p] = status]
                    /\ UNCHANGED <<pc, h>>
               ELSE /\ resp' = [resp EXCEPT ![p] = 0]
                    /\ WrapResponseWriter(p)
                    /\ pc' = [pc EXCEPT ![p] = IF op = "Health" THEN "health" ELSE "lock"]
                    /\ h' = [h EXCEPT ![p] = [NoReq EXCEPT
                           !.op = op, !.method = m, !.bucket = r.bucket, !.key = r.key,
                           !.path = JoinPath(r.bucket, r.key),
                           !.payload = pl, !.prefix = pf]]
    /\ body' = [body EXCEPT ![p] = <<>>]
    /\ closeErr' = [closeErr EXCEPT ![p] = FALSE]
    /\ envelope' = [envelope EXCEPT ![p] = Envelope(FALSE, {})]
    /\ UNCHANGED <<fsVars, lockVars, acked>>

\* s.mu.RLock(): the reader registers, and blocks while a writer is pending.
RLock(p) ==
    /\ pc[p] = "lock"
    /\ LockKind(h[p].op) = "read"
    /\ readers' = readers \cup {p}
    /\ IF writer # NoProc
         THEN /\ rblocked' = rblocked \cup {p}
              /\ pc' = [pc EXCEPT ![p] = "rwait"]
         ELSE /\ pc' = [pc EXCEPT ![p] = "op"]
              /\ UNCHANGED rblocked
    /\ UNCHANGED <<fsVars, writer, readerWait, h, httpVars, body, closeErr, acked>>

\* A reader blocked in RLock runs once the writer's Unlock has woken it.
RWake(p) ==
    /\ pc[p] = "rwait"
    /\ p \notin rblocked
    /\ pc' = [pc EXCEPT ![p] = "op"]
    /\ UNCHANGED <<fsVars, lockVars, h, httpVars, body, closeErr, acked>>

\* Variant of Lock that does not wait for the readers already in.
LockNoWait(p) ==
    /\ pc[p] = "lock"
    /\ LockKind(h[p].op) = "write"
    /\ writer = NoProc
    /\ writer' = p
    /\ readerWait' = readers
    /\ pc' = [pc EXCEPT ![p] = "op"]
    /\ UNCHANGED <<fsVars, readers, rblocked, h, httpVars, body, closeErr, acked>>

\* s.mu.Lock(): take the writer mutex and announce; from then on new readers
\* block, and the writer sleeps until the readers already in have left.
Lock(p) ==
    /\ pc[p] = "lock"
    /\ LockKind(h[p].op) = "write"
    /\ writer = NoProc
    /\ writer' = p
    /\ readerWait' = readers
    /\ pc' = [pc EXCEPT ![p] = IF readers = {} THEN "op" ELSE "wwait"]
    /\ UNCHANGED <<fsVars, readers, rblocked, h, httpVars, body, closeErr, acked>>

\* The writer runs once the last reader it waited for has called RUnlock.
WWake(p) ==
    /\ pc[p] = "wwait"
    /\ readerWait = {}
    /\ pc' = [pc EXCEPT ![p] = "op"]
    /\ UNCHANGED <<fsVars, lockVars, h, httpVars, body, closeErr, acked>>

\* The deferred s.mu.RUnlock() / s.mu.Unlock().  Unlock lets every blocked
\* reader in before the writer mutex is free again.
Release(p) ==
    IF LockKind(h[p].op) = "read"
      THEN /\ readers' = readers \ {p}
           /\ readerWait' = readerWait \ {p}
           /\ UNCHANGED <<writer, rblocked>>
      ELSE /\ writer' = NoProc
           /\ rblocked' = {}
           /\ UNCHANGED <<readers, readerWait>>

\* ServeHTTP returns; its locals are gone.
Finish(p) ==
    /\ pc' = [pc EXCEPT ![p] = "idle"]
    /\ h' = [h EXCEPT ![p] = NoReq]
    /\ body' = [body EXCEPT ![p] = <<>>]

\* responseWriter.WriteHeader(code): the wrapper records code and passes it
\* on; net/http sends the first status of a response and ignores the rest.
WriteHeader(p, code) ==
    /\ logged' = [logged EXCEPT ![p] = code]
    /\ resp' = [resp EXCEPT ![p] = IF @ = 0 THEN code ELSE @]
    /\ UNCHANGED envelope

\* The handler writes its status and returns.
Reply(p, status) ==
    /\ WriteHeader(p, status)
    /\ Finish(p)

\* A backend method returns nil: its deferred unlock runs, and ServeHTTP
\* answers with the method's success status.
Return(p, status) == Release(p) /\ Reply(p, status)

\* Variant with the unlock written at the end of the method instead of
\* deferred, so that an early error return keeps s.mu.
ReturnErrorKeepLock(p, status) == Reply(p, status) /\ UNCHANGED lockVars

\* A backend method returns an error: its deferred unlock runs, and
\* ServeHTTP calls http.Error with the status chosen at that call site.
ReturnError(p, status) == Release(p) /\ Reply(p, status)

-----------------------------------------------------------------------------
(* The backend methods, each run by p while it holds s.mu, followed by the *)
(* release of s.mu (their deferred unlock) and the rest of ServeHTTP.      *)

\* Variant listing with os.ReadDir instead of filepath.Walk: only the files
\* directly in the bucket directory.
ListingReadDir(bucketPath, prefix) ==
    { RelKey(bucketPath, f) :
        f \in { g \in DOMAIN files : Len(g) = Len(bucketPath) + 1 /\ IsPrefix(bucketPath, g)
                                     /\ (prefix = <<>> \/ HasPrefix(RelKey(bucketPath, g), prefix)) } }

\* The keys ListObjects(bucket, prefix) collects: filepath.Walk visits the
\* bucket path and everything below it; regular files become keys.
Listing(bucketPath, prefix) ==
    { RelKey(bucketPath, f) :
        f \in { g \in DOMAIN files : IsPrefix(bucketPath, g)
                                     /\ (prefix = <<>> \/ HasPrefix(RelKey(bucketPath, g), prefix)) } }

Running(p, op) == pc[p] = "op" /\ h[p].op = op

\* A listing succeeded: its result is copied into the response structure,
\* then WriteHeader(200), the XML declaration and the encoded envelope are
\* written; if a write fails, the client is left with a cut document, and
\* http.Error(500) reaches the wrapper, which net/http, with the status
\* already sent, ignores.
ReturnXML(p, names) ==
    /\ Release(p)
    /\ \E ok \in IF WriteMayFail THEN BOOLEAN ELSE {TRUE} :
         /\ logged' = [logged EXCEPT ![p] = IF ok THEN 200 ELSE 500]
         /\ resp' = [resp EXCEPT ![p] = 200]
         /\ envelope' = [envelope EXCEPT ![p] = Envelope(ok, names)]
    /\ Finish(p)

\* The entries of os.ReadDir(s.root) that are directories, by name.
BucketNames ==
    { Last(d) : d \in { e \in dirs : Len(e) = Len(Root) + 1 /\ IsPrefix(Root, e) } }

\* ListBuckets: os.ReadDir(s.root) fails once the root is gone.
ListBuckets(p) ==
    /\ Running(p, "ListBuckets")
    /\ IF Root \in dirs THEN ReturnXML(p, BucketNames) ELSE ReturnError(p, 500)
    /\ UNCHANGED <<fsVars, closeErr, acked>>

\* ListObjects: the walk fails when the bucket path does not exist.
ListObjects(p) ==
    LET bp == BucketPath(h[p].bucket) IN
    /\ Running(p, "ListObjects")
    /\ IF Exists(bp) THEN ReturnXML(p, Listing(bp, h[p].prefix))
                     ELSE ReturnError(p, 500)
    /\ UNCHANGED <<fsVars, closeErr, acked>>

\* GetObject: os.Stat, then os.Open, under the read lock; it returns the
\* open file, the read lock is released, and ServeHTTP sets Content-Length
\* from the stat size and answers 200 (404 for any error).  os.Open opens a
\* directory as readily as a file.  (snap, a ghost, keeps the bytes the
\* file held at that moment.)
GetObject(p) ==
    LET path == h[p].path
        isDir == path \in dirs
    IN
    /\ Running(p, "GetObject")
    /\ IF ~Exists(path)
         THEN ReturnError(p, 404)
         ELSE /\ Release(p)
              /\ WriteHeader(p, 200)
              /\ pc' = [pc EXCEPT ![p] = "stream"]
              /\ h' = [h EXCEPT ![p].fd   = IF isDir THEN DirHandle ELSE files[path],
                                ![p].size = IF isDir THEN DirSize ELSE Len(data[files[path]]),
                                ![p].snap = IF isDir THEN <<>> ELSE data[files[path]]]
              /\ UNCHANGED body
    /\ UNCHANGED <<fsVars, closeErr, acked>>

\* The deferred rc.Close() of ServeHTTP: the handle is dropped, and with it
\* an inode no path refers to any more.
CloseReader(p) ==
    /\ Finish(p)
    /\ data' = Scrub(Range(files) \cup {h[q].fd : q \in Procs \ {p}})

\* io.Copy(w, rc) in ServeHTTP, outside s.mu: one byte per step, read at
\* the file offset from the inode as it is now.  The copy ends at EOF, at a
\* read error (a directory), or when the ResponseWriter refuses bytes past
\* Content-Length; it also ends when writing to the client fails (the
\* client is gone, or WriteTimeout has passed), which is only logged.
StreamObject(p) ==
    LET fd  == h[p].fd
        off == Len(body[p])
        more == fd # DirHandle /\ off < Len(data[fd]) /\ off < h[p].size
    IN
    /\ pc[p] = "stream"
    /\ \/ /\ more
          /\ body' = [body EXCEPT ![p] = Append(@, data[fd][off + 1])]
          /\ UNCHANGED <<pc, h, data>>
       \/ /\ ~more
          /\ CloseReader(p)
       \/ /\ more /\ WriteMayFail
          /\ CloseReader(p)
    /\ UNCHANGED <<dirs, files, lockVars, httpVars, closeErr, acked>>

\* CreateBucket: os.MkdirAll of the bucket path; 200, or 500 on error.
CreateBucket(p) ==
    LET b == BucketPath(h[p].bucket) IN
    /\ Running(p, "CreateBucket")
    /\ IF MkdirAllOK(b)
         THEN /\ dirs' = dirs \cup Ancestors(b)
              /\ Return(p, 200)
         ELSE /\ ReturnError(p, 500)
              /\ UNCHANGED dirs
    /\ UNCHANGED <<files, data, closeErr, acked>>

\* os.Remove(path) as DeleteBucket and DeleteObject call it; 204, or 500.
RemoveAndReply(p, path) ==
    IF RemoveOK(path)
      THEN /\ Unlink(path)
           /\ acked' = Restrict(acked, DOMAIN acked \ {path})
           /\ Return(p, 204)
           /\ UNCHANGED closeErr
      ELSE /\ ReturnError(p, 500)
           /\ UNCHANGED <<fsVars, closeErr, acked>>

\* DeleteBucket: os.Remove of the bucket path.
DeleteBucket(p) ==
    /\ Running(p, "DeleteBucket")
    /\ RemoveAndReply(p, BucketPath(h[p].bucket))

\* DeleteObject: os.Remove of the object path.
DeleteObject(p) ==
    /\ Running(p, "DeleteObject")
    /\ RemoveAndReply(p, h[p].path)

\* Variant opening with O_WRONLY|O_CREATE but without O_TRUNC: an existing
\* file keeps its old bytes past what is written.
CreateNoTrunc(ino) == UNCHANGED data

\* os.Create(path) on an inode: O_TRUNC empties it.
CreateTruncate(ino) == data' = [data EXCEPT ![ino] = <<>>]

\* PutObject up to the copy: os.MkdirAll(filepath.Dir(path)), then
\* os.Create(path), which truncates an existing file in place and makes a
\* new inode otherwise.  Either error answers 500.  (prev, a ghost, keeps
\* the bytes the file held before, if there was one.)
PutObjectOpen(p) ==
    LET path == h[p].path
        dir  == DirOf(path)
        ino  == IF path \in DOMAIN files THEN files[path] ELSE Min(FreeInodes)
    IN
    /\ Running(p, "PutObject")
    /\ UNCHANGED closeErr
    /\ IF ~MkdirAllOK(dir)
         THEN /\ ReturnError(p, 500)
              /\ UNCHANGED <<fsVars, acked>>
       ELSE IF path \in dirs
         THEN /\ ReturnError(p, 500)
              /\ dirs' = dirs \cup Ancestors(dir)
              /\ UNCHANGED <<files, data, acked>>
       ELSE /\ dirs' = dirs \cup Ancestors(dir)
            /\ files' = (path :> ino) @@ files
            /\ CreateTruncate(ino)
            /\ h' = [h EXCEPT ![p].fd = ino, ![p].rest = h[p].payload,
                              ![p].prev = IF path \in DOMAIN files
                                            THEN {data[files[path]]} ELSE {}]
            /\ acked' = Restrict(acked, DOMAIN acked \ {path})
            /\ pc' = [pc EXCEPT ![p] = "copy"]
            /\ UNCHANGED <<lockVars, httpVars, body>>

\* io.Copy(f, r.Body): one byte of the request body written to the file.
PutObjectCopy(p) ==
    LET fd == h[p].fd IN
    /\ pc[p] = "copy"
    /\ h[p].rest # <<>>
    /\ data' = [data EXCEPT ![fd] = Append(@, Head(h[p].rest))]
    /\ h' = [h EXCEPT ![p].rest = Tail(@)]
    /\ UNCHANGED <<dirs, files, lockVars, pc, httpVars, body, closeErr, acked>>

\* io.Copy fails reading the request body: PutObject returns the error, the
\* deferred Close and Unlock run, and the client gets 500.  What was written
\* stays in the file.
PutObjectFail(p) ==
    /\ BodyMayFail
    /\ pc[p] = "copy"
    /\ h[p].rest # <<>>
    /\ ReturnError(p, 500)
    /\ UNCHANGED <<fsVars, closeErr, acked>>

\* Variant answering 201 Created to a successful PUT.
PutObjectClose201(p) ==
    /\ pc[p] = "copy"
    /\ h[p].rest = <<>>
    /\ Return(p, 201)
    /\ acked' = (h[p].path :> h[p].payload) @@ acked
    /\ UNCHANGED <<fsVars, closeErr>>

\* io.Copy reaches EOF and PutObject returns nil; the deferred f.Close()
\* assigns its error to the local err, which is not the result, so the
\* handler answers 200 whether or not Close failed.  (The bytes written
\* stay in the inode; what a failed close costs on stable storage is not
\* modelled.)
PutObjectClose(p) ==
    /\ pc[p] = "copy"
    /\ h[p].rest = <<>>
    /\ \E cerr \in IF CloseMayFail THEN BOOLEAN ELSE {FALSE} :
         closeErr' = [closeErr EXCEPT ![p] = cerr]
    /\ Return(p, 200)
    /\ acked' = (h[p].path :> h[p].payload) @@ acked
    /\ UNCHANGED fsVars

\* The health check of runS3Server, whatever the method: WriteHeader(200)
\* and "OK".
HealthCheck(p) ==
    /\ pc[p] = "health"
    /\ Reply(p, 200)
    /\ UNCHANGED <<fsVars, lockVars, closeErr, acked>>

\* The process exits with requests in flight (it is killed, or main returns
\* when server.Shutdown's 30 s deadline expires with handlers still
\* running) and runS3Server starts it again: NewS3Server's MkdirAll
\* recreates the storage root; goroutines, s.mu and open files are gone,
\* the files stay as they were.
Restart ==
    /\ dirs' = dirs \cup Ancestors(Root)
    /\ data' = Scrub(Range(files))
    /\ writer' = NoProc
    /\ readers' = {}
    /\ rblocked' = {}
    /\ readerWait' = {}
    /\ pc' = [p \in Procs |-> "idle"]
    /\ h' = [p \in Procs |-> NoReq]
    /\ resp' = [p \in Procs |-> 0]
    /\ logged' = [p \in Procs |-> 0]
    /\ body' = [p \in Procs |-> <<>>]
    /\ closeErr' = [p \in Procs |-> FALSE]
    /\ envelope' = [p \in Procs |-> Envelope(FALSE, {})]
    /\ UNCHANGED <<files, acked>>

-----------------------------------------------------------------------------
\* Everything a goroutine does once its request has arrived, except taking
\* the writer mutex.
Serve(p) ==
    \/ HealthCheck(p) \/ RLock(p) \/ RWake(p) \/ WWake(p)
    \/ ListBuckets(p) \/ ListObjects(p) \/ GetObject(p) \/ StreamObject(p)
    \/ CreateBucket(p) \/ DeleteBucket(p) \/ DeleteObject(p)
    \/ PutObjectOpen(p) \/ PutObjectCopy(p) \/ PutObjectFail(p) \/ PutObjectClose(p)

Next ==
    \/ \E p \in Procs : Receive(p) \/ Lock(p) \/ Serve(p)
    \/ Restart

\* Goroutines are scheduled fairly (weak fairness); a goroutine waiting in
\* s.mu.Lock() gets the writer mutex if it is free infinitely often, which
\* sync.Mutex's starvation mode guarantees (strong fairness).  New requests
\* need not arrive.
Spec ==
    /\ Init /\ [][Next]_vars
    /\ \A p \in Procs : WF_vars(Serve(p)) /\ SF_vars(Lock(p))

-----------------------------------------------------------------------------
(* Properties.                                                             *)

\* Read-your-writes: once PutObject has answered 200 for a path, and until
\* another PUT or a DELETE of that path begins, the file at that path holds
\* exactly the body of that PUT (os.Create truncates; a DELETE of a bucket
\* or of a directory never takes the file with it; no other request writes
\* to the inode).
AckedWriteVisible ==
    \A f \in DOMAIN acked : f \in DOMAIN files /\ data[files[f]] = acked[f]

\* While a PUT is copying the request body into the file (with the file
\* already truncated), no other request is inside a backend method: the
\* write side of s.mu excludes readers and writers alike.
WriterExclusive ==
    \A p \in Procs : pc[p] = "copy" =>
        \A q \in Procs \ {p} : pc[q] \notin {"op", "copy"}

\* Every request that reaches a backend method is eventually answered: no
\* path through ServeHTTP leaves s.mu held, and sync.RWMutex lets a waiting
\* writer in even while reads keep arriving.
EveryRequestAnswered ==
    \A p \in Procs : pc[p] # "idle" ~> pc[p] = "idle"

GetServesOnlyFiles ==
    \A p \in Procs : pc[p] = "stream" => h[p].fd # DirHandle

\* The storage root exists as long as the server runs (spec: GET / on the
\* store answers the bucket list; bucket existence is directory existence
\* below the root).
StorageRootExists == Root \in dirs

\* No request creates or removes anything outside the buckets: every file
\* and every directory other than the root and its ancestors lies below the
\* root (the comment at PutObject says the path is built from a validated
\* bucket and key).
RootConfined ==
    /\ \A f \in DOMAIN files : IsStrictPrefix(Root, f)
    /\ \A d \in dirs : IsStrictPrefix(Root, d) \/ d \in Ancestors(Root)

\* A PUT answered 200 was stored completely: every step of PutObject,
\* the deferred f.Close() included, succeeded (spec: operations fail if the
\* underlying filesystem call fails, and outcomes are surfaced verbatim).
\* The close error is assigned to a local err that is not the result.
CloseErrorReported ==
    \A p \in Procs : (pc[p] = "idle" /\ closeErr[p]) => resp[p] # 200

\* The status loggingMiddleware prints for a request is the status its
\* client received.  After WriteHeader(200) of a listing, a failed body
\* write makes ServeHTTP call http.Error, whose WriteHeader(500) the
\* responseWriter records though net/http never sends it.
LoggedStatusIsSent ==
    \A p \in Procs : pc[p] = "idle" => logged[p] = resp[p]

\* A listing answers with exactly the stored objects of the bucket that
\* match the prefix (spec: listing completeness, prefix filter correctness,
\* deletion effect; listings reflect the latest completed write).  At the
\* step where ListObjects answers with a whole XML document: every path
\* whose PUT was answered 200 since its last PUT or DELETE began, below the
\* bucket and with a key that starts with the prefix, is listed; and every
\* listed key starts with the prefix and names a regular file, the one a
\* GET or DELETE of that key reaches.  filepath.Walk must descend into the
\* directories nested keys made, skip the directories themselves (also
\* those DeleteObject leaves behind), and Rel/ToSlash must invert Join.
ListingReflectsWrites ==
    [][\A p \in Procs :
         (pc[p] = "op" /\ h[p].op = "ListObjects" /\ envelope'[p].complete)
            => LET bp   == BucketPath(h[p].bucket)
                   keys == envelope'[p].names
               IN  /\ \A f \in DOMAIN acked :
                        (IsStrictPrefix(bp, f) /\ HasPrefix(RelKey(bp, f), h[p].prefix))
                           => RelKey(bp, f) \in keys
                   /\ \A k \in keys :
                        /\ HasPrefix(k, h[p].prefix)
                        /\ JoinPath(h[p].bucket, k) \in DOMAIN files]_vars

-----------------------------------------------------------------------------
(* Refinement of the lock.  A goroutine holds s.mu for reading while it    *)
(* runs a read method, and for writing while it runs a write method       *)
(* (PutObject's copy included); under this mapping the counters of        *)
(* sync.RWMutex implement RWLock.                                          *)

LockReaders ==
    {p \in Procs : pc[p] = "op" /\ LockKind(h[p].op) = "read"}

LockWriters ==
    {p \in Procs : pc[p] \in {"op", "copy"} /\ LockKind(h[p].op) = "write"}

LockSpec == INSTANCE RWLock WITH
    rholders <- LockReaders,
    wholders <- LockWriters

\* The RLock/Lock/RUnlock/Unlock calls of the backend methods, with the
\* reader count, the blocked readers, the announced writer and the readers
\* it waits for, give the behaviour of a reader/writer lock: no goroutine
\* runs a write method while any other runs a method.
LockRefinement == LockSpec!Spec

-----------------------------------------------------------------------------
(* Refinement of the object store.  A file a PUT is still copying into is  *)
(* shown with the bytes it held before the PUT truncated it, or not at all *)
(* if the PUT created it; every other file is shown with its bytes.        *)
(* Directories are not objects.                                            *)

\* The file paths requests can name.
ObjectPaths == { JoinPath(ParsedURL[u].bucket, ParsedURL[u].key) : u \in URLPaths }

Copying(f) == { p \in Procs : pc[p] = "copy" /\ h[p].path = f }

\* What the files held before the PUTs copying into them began.
PrevBytes(f) == UNION { h[p].prev : p \in Copying(f) }

StoreObjects ==
    [f \in { g \in DOMAIN files : Copying(g) = {} \/ PrevBytes(g) # {} } |->
        IF Copying(f) = {} THEN data[files[f]] ELSE CHOOSE v \in PrevBytes(f) : TRUE]

StoreSpec == INSTANCE ObjectStore WITH
    objects <- StoreObjects,
    Paths   <- ObjectPaths,
    Values  <- Payloads

\* The backend behaves as a store of objects changed one at a time (spec:
\* PutObject writes the full byte stream, DeleteObject removes the file;
\* a PUT is not atomic, so an error or crash mid-write leaves a partially
\* written file visible): a PUT answered 200 leaves exactly its body, a PUT
\* cut by a failed body read or a restart leaves a prefix of it, and no
\* step changes two objects or changes an object to anything else.  It
\* rests on os.Create truncating, on the write lock keeping PUTs and
\* DELETEs apart, and on an open GET never writing its inode.  (This is
\* StoreSpec!Spec with the stuttering step tried first: most steps of the
\* server leave every object alone, and TLC evaluates the disjuncts of
\* the action in order.)
StoreRefinement ==
    StoreSpec!Init /\ [][UNCHANGED StoreObjects \/ StoreSpec!Next]_StoreObjects

\* A PUT of a bucket answered 200 leaves the bucket in place (spec: PUT
\* /{bucket} creates the bucket, 200; bucket names are opaque).  Behind
\* runS3Server's mux, PUT /health reaches the health check instead.
BucketCreatedOnOK ==
    [][\A p \in Procs :
         (/\ h[p].method = "PUT" /\ h[p].key = <<>>
          /\ pc[p] # "idle" /\ pc'[p] = "idle" /\ resp'[p] = 200)
            => BucketPath(h[p].bucket) \in dirs']_vars

=============================================================================
