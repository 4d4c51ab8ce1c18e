--------------------------- MODULE MarketDownload ---------------------------
(***************************************************************************)
(* One extension fetched by name: src/src/ide_scanner/registry.py          *)
(* (download_marketplace_vsix) and its caller scan_marketplace_extension   *)
(* in scanner.py.  The VS Marketplace is asked first, Open VSX when it has *)
(* no answer; up to two URLs are tried into one temporary file; a gzip     *)
(* layer is removed; the published digest is compared where it applies;    *)
(* the vault and the scan then read the file.                              *)
(*                                                                         *)
(* A package is cut into chunks; a chunk knows the response it came from   *)
(* and its place in it.  What a registry answers, how many gzip layers it  *)
(* adds and where a connection ends are chosen freely.                     *)
(***************************************************************************)
EXTENDS Integers, Sequences, FiniteSets

CONSTANTS
    Versions,       \* versions an extension has
    MaxParts,       \* chunks of the largest package a registry serves
    Cap,            \* chunks a download may have: IDE_SCANNER_MAX_VSIX_BYTES
    NoVersion       \* no version: a request without one, a page without one

ASSUME MarketOK == MaxParts \in Nat /\ Cap \in Nat

Registries == {"vs-marketplace", "openvsx"}
Served == [registry : Registries, version : Versions, parts : 0..MaxParts]
Chunks == [of : Served, part : 1..MaxParts]

\* The digest of the page's version: of the package, of the package in one
\* layer of gzip, of something else, or none.
Digests == {"none", "package", "wrapped", "stale"}
Page == [registry : Registries, version : Versions \cup {NoVersion},
         url : BOOLEAN, digest : Digests]

VARIABLES
    ask,            \* what is asked: version, target platform, mismatch opt-in
    step,           \* where download_marketplace_vsix or its caller is
    page,           \* metadata
    tries,          \* candidate URLs not tried yet, the first is next
    response,       \* the response being read, {} or one
    file,           \* out_path: {} when there is none, or one sequence of chunks
    layers,         \* gzip layers around the bytes of file
    scratch,        \* decompressed_name exists
    label,          \* registry_out
    row,            \* what the vault recorded: version named and bytes
    result,         \* the report, once there is one
    cause           \* why the call failed

marketVars == <<ask, step, page, tries, response, file, layers, scratch, label, row, result, cause>>

Asks == [version : Versions \cup {NoVersion}, platform : BOOLEAN, lax : BOOLEAN]
Nowhere == [registry |-> "vs-marketplace", version |-> NoVersion, url |-> FALSE, digest |-> "none"]
NoLabel == [registry |-> "", version |-> NoVersion, verified |-> FALSE, digest |-> "none"]
NoReport == [registry |-> "", version |-> NoVersion, matched |-> FALSE, bytes |-> <<>>]

MarketInit ==
    /\ ask \in Asks
    /\ step = "lookup" /\ page = Nowhere /\ tries = <<>> /\ response = {}
    /\ file = {} /\ layers = 0 /\ scratch = FALSE
    /\ label = NoLabel /\ row = NoReport /\ result = NoReport /\ cause = ""

\* MarketplaceDownloadError, with out_path removed or left.
Failed(why, kept) ==
    /\ step' = "failed" /\ cause' = why /\ file' = kept /\ response' = {}
    /\ UNCHANGED <<ask, page, tries, layers, scratch, label, row, result>>

-----------------------------------------------------------------------------
(* Metadata.                                                                *)

MarketPages == [registry : {"vs-marketplace"}, version : Versions, url : BOOLEAN, digest : Digests]

\* A 404 of Open VSX: _http_get_text asks again with curl, which returns the
\* body of the error as text; where it is JSON the extension counts as found.
OpenVsxPages ==
    [registry : {"openvsx"}, version : Versions, url : {TRUE}, digest : {"none"}]
        \cup [registry : {"openvsx"}, version : {NoVersion}, url : {FALSE}, digest : {"none"}]

Target(p) == IF ask.version # NoVersion THEN ask.version ELSE p.version

\* The asset of the page, whichever version was asked for; the package
\* endpoint names the version.
FirstUrl(p) ==
    IF p.url /\ ~ask.platform THEN [registry |-> p.registry, version |-> p.version]
    ELSE [registry |-> "vs-marketplace", version |-> Target(p)]

\* Open VSX as the second source of a Marketplace page: o is its page, if any.
SecondUrl(p, o) ==
    IF p.registry = "vs-marketplace" /\ ~ask.platform
       /\ \E q \in o : q.url /\ (ask.version = NoVersion \/ q.version = Target(p))
    THEN <<[registry |-> "openvsx", version |-> (CHOOSE q \in o : TRUE).version]>>
    ELSE <<>>

Resolve(p, o) ==
    /\ Target(p) # NoVersion
    /\ p.registry = "openvsx" => ~ask.platform
    /\ step' = "open" /\ page' = p
    /\ tries' = <<FirstUrl(p)>> \o SecondUrl(p, o)
    /\ file' = {<<>>}
    /\ UNCHANGED <<ask, response, layers, scratch, label, row, result, cause>>

AskMarket == step = "lookup" /\ \E p \in MarketPages, o \in {{}} \cup {{q} : q \in OpenVsxPages} : Resolve(p, o)
AskOpenVsx == step = "lookup" /\ \E p \in OpenVsxPages : Resolve(p, {})

\* Neither registry answers, there is no version to name, or Open VSX is
\* asked for one platform.
NoPage == step = "lookup" /\ Failed("lookup", {})

-----------------------------------------------------------------------------
(* The candidates, into one file.                                           *)

\* Variant: the bytes of the candidate before are still there.
OpenOver ==
    /\ step = "open" /\ tries # <<>>
    /\ \E n \in 0..MaxParts, l \in 0..2 :
         /\ response' = {[registry |-> Head(tries).registry, version |-> Head(tries).version, parts |-> n]}
         /\ layers' = l
    /\ step' = "read"
    /\ UNCHANGED <<ask, page, tries, file, scratch, label, row, result, cause>>

\* seek(0), truncate(0) and the request.
Open ==
    /\ step = "open" /\ tries # <<>>
    /\ \E n \in 0..MaxParts, l \in 0..2 :
         /\ response' = {[registry |-> Head(tries).registry, version |-> Head(tries).version, parts |-> n]}
         /\ layers' = l
    /\ file' = {<<>>}
    /\ step' = "read"
    /\ UNCHANGED <<ask, page, tries, scratch, label, row, result, cause>>

\* All of one response.
Whole(b) == b # <<>> /\ Len(b) = b[1].of.parts /\ \A i \in 1..Len(b) : b[i] = [of |-> b[1].of, part |-> i]

Bytes == CHOOSE b \in file : TRUE
Source == CHOOSE r \in response : TRUE
Read(r) == Cardinality({i \in 1..Len(Bytes) : Bytes[i].of = r})

ReadChunk ==
    /\ step = "read"
    /\ Read(Source) < Source.parts
    /\ Len(Bytes) < Cap
    /\ file' = {Append(Bytes, [of |-> Source, part |-> Read(Source) + 1])}
    /\ UNCHANGED <<ask, step, page, tries, response, layers, scratch, label, row, result, cause>>

\* The candidate raises: a host that is not public, a status, a connection
\* that breaks, or more bytes than the cap.
NextUrl ==
    /\ step \in {"open", "read"}
    /\ Len(tries) > 1
    /\ step' = "open" /\ tries' = Tail(tries) /\ response' = {}
    /\ UNCHANGED <<ask, page, file, layers, scratch, label, row, result, cause>>

NoMoreUrls ==
    /\ step \in {"open", "read"}
    /\ Len(tries) = 1
    /\ Failed("download", {})

\* http.client.IncompleteRead is no OSError: nothing catches it and the file
\* stays.
ProtocolError ==
    /\ step = "read"
    /\ Failed("protocol", file)

\* The response ends, at its last chunk or where the server closed it.
Downloaded ==
    /\ step = "read"
    /\ Bytes # <<>>
    /\ step' = "unwrap" /\ response' = {}
    /\ label' = [label EXCEPT !.registry = Head(tries).registry, !.version = Target(page)]
    /\ UNCHANGED <<ask, page, tries, file, layers, scratch, row, result, cause>>

EmptyDownload ==
    /\ step = "read"
    /\ Bytes = <<>>
    /\ Failed("empty", {})

-----------------------------------------------------------------------------
(* Decompression in a worker.                                               *)

Unwrap ==
    /\ step = "unwrap" /\ layers > 0 /\ ~scratch
    /\ scratch' = TRUE
    /\ UNCHANGED <<ask, step, page, tries, response, file, layers, label, row, result, cause>>

\* os.replace, or nothing to do.
Unwrapped ==
    /\ step = "unwrap"
    /\ layers > 0 => scratch /\ Whole(Bytes)
    /\ step' = "verify" /\ scratch' = FALSE
    /\ layers' = IF layers > 0 THEN layers - 1 ELSE 0
    /\ UNCHANGED <<ask, page, tries, response, file, label, row, result, cause>>

\* Variant: what the worker wrote before it failed is kept.
UnwrapFailsKeeping ==
    /\ step = "unwrap" /\ layers > 0
    /\ step' = "failed" /\ cause' = "unwrap"
    /\ UNCHANGED <<ask, page, tries, response, file, layers, scratch, label, row, result>>

\* The worker fails, before or after it made its file; out_path stays.
UnwrapFails ==
    /\ step = "unwrap" /\ layers > 0
    /\ step' = "failed" /\ cause' = "unwrap" /\ scratch' = FALSE
    /\ UNCHANGED <<ask, page, tries, response, file, layers, label, row, result>>

\* os.replace raises: nothing catches it.
ReplaceFails ==
    /\ step = "unwrap" /\ scratch
    /\ Failed("replace", file)

-----------------------------------------------------------------------------
(* The published digest.                                                    *)

\* sha256 of these bytes in this many layers is the digest of the page.
DigestOf(b, l) ==
    /\ Whole(b) /\ b[1].of.registry = "vs-marketplace" /\ b[1].of.version = page.version
    /\ page.digest = (CASE l = 0 -> "package" [] l = 1 -> "wrapped" [] OTHER -> "none")

\* integrity_metadata_matches: the page is of this very artifact.
Applies ==
    /\ page.version = Target(page) /\ ~ask.platform
    /\ page.registry = "vs-marketplace" /\ label.registry = "vs-marketplace"

Expected == IF Applies THEN page.digest ELSE "none"

CheckDigest ==
    /\ step = "verify"
    /\ Expected = "none" \/ DigestOf(Bytes, layers) \/ ask.lax
    /\ step' = "store"
    /\ label' = [label EXCEPT !.digest = Expected, !.verified = Expected # "none" /\ DigestOf(Bytes, layers)]
    /\ UNCHANGED <<ask, page, tries, response, file, layers, scratch, row, result, cause>>

DigestDiffers ==
    /\ step = "verify"
    /\ Expected # "none" /\ ~DigestOf(Bytes, layers) /\ ~ask.lax
    /\ Failed("digest", {})

-----------------------------------------------------------------------------
(* scan_marketplace_extension.                                              *)

\* preserve names the bytes as registry_out does.
Preserve ==
    /\ step = "store"
    /\ row' = [registry |-> label.registry, version |-> label.version, matched |-> FALSE, bytes |-> Bytes]
    /\ step' = "scan"
    /\ UNCHANGED <<ask, page, tries, response, file, layers, scratch, label, result, cause>>

\* No vault is configured.
NoVault == step = "store" /\ step' = "scan" /\ UNCHANGED <<ask, page, tries, response, file, layers, scratch, label, row, result, cause>>

\* Variant: the file is removed when the report is made, not when it fails.
ScanFailsKeeping == step \in {"store", "scan"} /\ Failed("scan", file)

\* A vault that fails, an archive that cannot be read, or another identity
\* than the one asked for: an error report.  A second layer that cannot be
\* removed raises through the caller.  Both remove the file.
ScanFails == step \in {"store", "scan"} /\ Failed("scan", {})

\* scan_vsix takes one more layer off its copy; artifact_hash is of the result.
Scanned == IF layers > 0 THEN layers - 1 ELSE 0

\* Variant: the download compared the digest.
MatchedOnce == label.digest # "none" /\ label.verified

Matched == label.digest # "none" /\ label.verified /\ DigestOf(Bytes, Scanned)

Accepted ==
    /\ step = "scan"
    /\ Whole(Bytes)
    /\ ask.version # NoVersion => Bytes[1].of.version = ask.version
    /\ step' = "done" /\ file' = {}
    /\ result' = [registry |-> label.registry, version |-> Bytes[1].of.version, matched |-> Matched, bytes |-> Bytes]
    /\ UNCHANGED <<ask, page, tries, response, layers, scratch, label, row, cause>>

MarketNext ==
    \/ AskMarket \/ AskOpenVsx \/ NoPage
    \/ Open \/ ReadChunk \/ NextUrl \/ NoMoreUrls \/ ProtocolError \/ Downloaded \/ EmptyDownload
    \/ Unwrap \/ Unwrapped \/ UnwrapFails \/ ReplaceFails
    \/ CheckDigest \/ DigestDiffers
    \/ Preserve \/ NoVault \/ ScanFails \/ Accepted

MarketSpec == MarketInit /\ [][MarketNext]_marketVars

-----------------------------------------------------------------------------
(* Properties.                                                              *)

MarketTypeOK ==
    /\ ask \in Asks /\ page \in Page \cup {Nowhere} /\ layers \in 0..2 /\ scratch \in BOOLEAN
    /\ step \in {"lookup", "open", "read", "unwrap", "verify", "store", "scan", "done", "failed"}
    /\ response \subseteq Served /\ Cardinality(response) <= 1
    /\ Cardinality(file) <= 1 /\ \A b \in file : Len(b) <= Cap /\ \A i \in 1..Len(b) : b[i] \in Chunks

\* The file that goes on to the scan is the beginning of one response: no byte
\* of a candidate that broke off is left in it (registry.py:238-242).
OneSource ==
    step \in {"unwrap", "verify", "store", "scan"} =>
        \A i \in 1..Len(Bytes) : Bytes[i] = [of |-> Bytes[1].of, part |-> i]

\* A report, and the row of the vault, name the registry their bytes came from,
\* whichever one described the extension.  A report that shows matched package
\* integrity is of exactly the bytes the Marketplace published for that version,
\* and its digest is that of what was scanned, through fall back, opt-in and
\* every gzip layer (registry.py:245, scanner.py:1423-1427, 1527-1533, 1594-1601).
MatchedIsPublished ==
    /\ \A r \in {row, result} \ {NoReport} : r.registry = r.bytes[1].of.registry
    /\ result.matched =>
        /\ Whole(result.bytes) /\ result.registry = "vs-marketplace"
        /\ result.bytes[1].of = [registry |-> "vs-marketplace", version |-> result.version,
                                 parts |-> Len(result.bytes)]
        /\ DigestOf(result.bytes, Scanned)

\* A call that ends leaves nothing on disk, but for two errors that no handler
\* catches and the partial file of a failed decompression (registry.py:259-264,
\* 471-499, scanner.py:1517-1518).
FilesRemoved ==
    step \in {"done", "failed"} =>
        /\ scratch => cause = "replace"
        /\ file # {} => cause \in {"protocol", "replace", "unwrap"}
=============================================================================
