------------------------------ MODULE MonLoader ------------------------------
(***************************************************************************)
(* The loading of a monitor (vmmon, bootstrap/ and Vmx86_ProcessBootstrap):*)
(* the blob is copied from the process, and the table in its header is     *)
(* processed for each VCPU in turn, which fills the page table that the    *)
(* process has made for the VCPU.  One action is one page of an entry; any *)
(* call that may fail does so in some behaviour.  A machine is booted once.*)
(*                                                                         *)
(* This is the release build, in which MonLoaderMapMPN does not look at    *)
(* what is mapped already.  The tables are as the monitor's build makes    *)
(* them: entries do not overlap, and lie in the address space.             *)
(*                                                                         *)
(* A page is [kind, num]: allocated for the monitor, of the blob, of a     *)
(* region that the process shares, or one of vmmon's cross pages.  What    *)
(* an allocated page holds is the offset and the length of the bytes of    *)
(* the blob that it begins with; the rest is zero.                         *)
(***************************************************************************)
EXTENDS Integers, FiniteSetsExt, SequencesExt

CONSTANTS
  Tables,        \* headers' tables: sequences of entries
  VCPUs,         \* 0 .. numVCPUs - 1
  PAGE_SIZE,
  BlobSize,      \* numBytes
  L1Pages,       \* pages that one L1 page table maps
  SharedPages,   \* pages of each shared region, 0 if it has none
  MaxPage        \* the address space is 0 .. MaxPage

VARIABLES
  status,        \* of Vmx86_ProcessBootstrap
  table,         \* header->entries
  blob,          \* "none", "loaded" or "freed"
  vcpu, line, i, \* where MonLoader_Process is; i is the page of the entry
  l1MPNs,        \* L1 page tables of the VCPU that are known
  hasAddrSpace,
  pte,           \* the page tables of each VCPU
  frames,        \* allocated pages, with what they hold
  vmmTracker,    \* allocated pages that are mapped in the kernel
  allocs         \* counted for each entry

where == <<vcpu, line, i>>
ctx   == <<l1MPNs, hasAddrSpace>>
pages == <<pte, frames, vmmTracker, allocs>>
vars  == <<status, table, blob, where, ctx, pages>>

Space   == 0 .. MaxPage
L1s     == {v \div L1Pages : v \in Space}
Ceiling(n) == (n + PAGE_SIZE - 1) \div PAGE_SIZE

Page(kind, num) == [kind |-> kind, num |-> num]
Unmapped   == [page |-> Page("none", 0), flags |-> "none"]
Writeable  == {"rw", "rwx"}

\* The entries that map pages, and where.
Mapping(e) == e.content \in {"zero", "copy", "share"}
Place(e)   == e.monVPN .. e.monVPN + e.monPages - 1

\* The header and the cross pages are one page, whichever is asked for.
Single     == {"header", "data", "code"}

\* The region of htSchedStateMap (MONLOADER_HT_MAP_IDX), which need not be there at all.
HtMap      == "htmap"

Entries ==
  [content : {"invalid", "space", "tables", "zero", "copy", "share"},
   source : {"none", "blob", "user", "host"}, flags : {"ro", "rw", "rx", "rwx"},
   bspOnly : BOOLEAN, sub : {"none"} \cup Single \cup DOMAIN SharedPages,
   offset : Nat, size : Nat, monVPN : Nat, monPages : Nat]

\* Regions have names of their own, and a table's entries lie in the address space, apart.
LoaderAssumption ==
  /\ IsFiniteSet(VCPUs) /\ 0 \in VCPUs /\ VCPUs = 0 .. Cardinality(VCPUs) - 1
  /\ PAGE_SIZE \in Nat \ {0} /\ L1Pages \in Nat \ {0} /\ BlobSize \in Nat /\ MaxPage \in Nat
  /\ {"vmm", "blob"} \cap DOMAIN SharedPages = {}
  /\ \A t \in Tables :
       /\ t \in Seq(Entries) /\ t # <<>>
       /\ \A l \in DOMAIN t : Mapping(t[l]) =>
            /\ Place(t[l]) \subseteq Space
            /\ \A m \in DOMAIN t \ {l} : Mapping(t[m]) => Place(t[l]) \cap Place(t[m]) = {}

Init ==
  /\ status = "created" /\ table = <<>>
  /\ blob = "none"
  /\ vcpu = 0 /\ line = 1 /\ i = 0
  /\ l1MPNs = {} /\ hasAddrSpace = FALSE
  /\ pte = [c \in VCPUs |-> [v \in Space |-> Unmapped]]
  /\ frames = <<>> /\ vmmTracker = {}
  /\ allocs = <<>>

-----------------------------------------------------------------------------
(* Before and after the table.                                              *)

\* VmmBlob_Load, and what Vmx86_ProcessBootstrap does before MonLoader_Process.
Load ==
  /\ status = "created" /\ status' = "process" /\ blob' = "loaded"
  /\ table' \in Tables /\ allocs' = [l \in DOMAIN table' |-> 0]
  /\ UNCHANGED <<where, ctx, pte, frames, vmmTracker>>

\* Any of it fails: the blob is freed.
LoadFails ==
  /\ status = "created" /\ status' = "failed"
  /\ UNCHANGED <<table, blob, where, ctx, pages>>

\* MonLoaderCallout_CleanUp after the last VCPU.
Finish ==
  /\ status = "process" /\ vcpu \notin VCPUs
  /\ status' = "booted" /\ vmmTracker' = {}
  /\ UNCHANGED <<table, blob, where, ctx, pte, frames, allocs>>

\* Mutant: what is mapped in the kernel stays so.
FailedStays ==
  /\ status = "error"
  /\ status' = "failed" /\ blob' = "freed"
  /\ UNCHANGED <<table, where, ctx, pages>>

\* And after an error, when the blob is freed as well.
Failed ==
  /\ status = "error"
  /\ status' = "failed" /\ vmmTracker' = {} /\ blob' = "freed"
  /\ UNCHANGED <<table, where, ctx, pte, frames, allocs>>

\* MODULECALL_BOOTSTRAP_CLEANUP: the monitor does not need the blob any more.
BootstrapCleanup ==
  /\ status = "booted" /\ blob = "loaded" /\ blob' = "freed"
  /\ UNCHANGED <<status, table, where, ctx, pages>>

-----------------------------------------------------------------------------
(* The entries.                                                             *)

Entry   == table[line]
AtEntry == status = "process" /\ vcpu \in VCPUs

\* Mutant: entries of the bootstrap are processed for every VCPU.
AppliesToAll(e, c) == TRUE

\* bspOnly.
Applies(e, c) == ~e.bspOnly \/ c = 0

\* The pages that an entry is processed for.
Count(e) == IF e.content = "copy" \/ e.source = "blob" THEN Ceiling(e.size) ELSE e.monPages

\* Mutant: a page of the blob may be shared with any flags.
AcceptedAnyFlags(e) ==
  /\ e.monPages # 0
  /\ CASE e.content = "space" -> ~hasAddrSpace
       [] e.content = "tables" -> TRUE
       [] e.content = "zero" -> e.source \in {"none", "blob"} /\ Count(e) \in 1 .. e.monPages
       [] e.content = "copy" -> e.source = "blob" /\ e.size \in 1 .. e.monPages * PAGE_SIZE
       [] e.content = "share" /\ e.source = "blob" -> e.size \in 1 .. e.monPages * PAGE_SIZE
       [] OTHER -> e.content = "share" /\ e.source \in {"user", "host"}

\* What is tested before the first page of an entry.
Accepted(e) ==
  /\ e.monPages # 0
  /\ CASE e.content = "space" -> ~hasAddrSpace
       [] e.content = "tables" -> TRUE
       [] e.content = "zero" -> e.source \in {"none", "blob"} /\ Count(e) \in 1 .. e.monPages
       [] e.content = "copy" -> e.source = "blob" /\ e.size \in 1 .. e.monPages * PAGE_SIZE
       [] e.content = "share" /\ e.source = "blob" ->
            /\ e.offset % PAGE_SIZE = 0 /\ e.size % PAGE_SIZE = 0 /\ e.flags \notin Writeable
            /\ e.size \in 1 .. e.monPages * PAGE_SIZE
       [] OTHER -> e.content = "share" /\ e.source \in {"user", "host"}

AtPage(content) ==
  AtEntry /\ Applies(Entry, vcpu) /\ Accepted(Entry) /\ Entry.content = content

\* On to the next entry, or the next VCPU with nothing known of it.
NextEntry ==
  IF line < Len(table)
  THEN line' = line + 1 /\ i' = 0 /\ UNCHANGED <<vcpu, ctx>>
  ELSE /\ vcpu' = vcpu + 1 /\ line' = 1 /\ i' = 0
       /\ l1MPNs' = {} /\ hasAddrSpace' = FALSE

\* On to the next page of the entry, if there is one.
NextPage ==
  IF i + 1 < Count(Entry) THEN i' = i + 1 /\ UNCHANGED <<vcpu, line, ctx>> ELSE NextEntry

Error == status' = "error" /\ UNCHANGED <<where, ctx>>

Skip ==
  /\ AtEntry /\ ~Applies(Entry, vcpu)
  /\ NextEntry
  /\ UNCHANGED <<status, table, blob, pages>>

Reject ==
  /\ AtEntry /\ Applies(Entry, vcpu) /\ ~Accepted(Entry)
  /\ Error
  /\ UNCHANGED <<table, blob, pages>>

\* MonLoaderCreateAddressSpace: the page tables the process has made are taken over, and
\* of the L1 ones any may be absent.  Other entries follow.
CreateAddressSpace ==
  /\ AtPage("space") /\ line < Len(table)
  /\ line' = line + 1 /\ i' = 0 /\ UNCHANGED vcpu
  /\ l1MPNs' \in SUBSET L1s /\ hasAddrSpace' = TRUE
  /\ UNCHANGED <<status, table, blob, pages>>

\* It finds flags that do not match, or cannot read a page table.
CreateAddressSpaceFails ==
  /\ AtPage("space") /\ Error
  /\ UNCHANGED <<table, blob, pages>>

\* MonLoaderMapPageTables: what would compare the mappings is never reached.
MapPageTables ==
  /\ AtPage("tables") /\ NextEntry
  /\ UNCHANGED <<status, table, blob, pages>>

-----------------------------------------------------------------------------
(* Pages.                                                                   *)

Known(v) == v \div L1Pages \in l1MPNs

\* MonLoaderMapMPN, where the L1 page table is known.
Map(v, page) == pte' = [pte EXCEPT ![vcpu][v] = [page |-> page, flags |-> Entry.flags]]

\* MonLoaderCallout_AllocMPN: a page that is mapped in the kernel, and what it will hold.
NewFrame == Len(frames) + 1
Alloc(content) ==
  /\ frames' = Append(frames, content)
  /\ vmmTracker' = vmmTracker \cup {NewFrame}

\* It gives back what it has taken if it cannot map or track the page.
AllocFails ==
  /\ AtPage("zero") \/ AtPage("copy")
  /\ Error
  /\ UNCHANGED <<table, blob, pages>>

\* Mutant: the pages of an entry are filled from its first bytes.
ChunkOfFirst(e, k) ==
  [offset |-> e.offset, length |-> Min({PAGE_SIZE, e.size - k * PAGE_SIZE})]

\* The bytes of the blob for page k of an entry, and no bytes.
Chunk(e, k) ==
  [offset |-> e.offset + k * PAGE_SIZE, length |-> Min({PAGE_SIZE, e.size - k * PAGE_SIZE})]
Zeroes == [offset |-> 0, length |-> 0]
Junk   == [offset |-> 0, length |-> -1]

InBlob(chunk) == chunk.length <= BlobSize /\ chunk.offset <= BlobSize - chunk.length

\* MonLoaderZero and MonLoaderCopyFromBlob, one page.
Fill(content, holds) ==
  /\ AtPage(content) /\ Known(Entry.monVPN + i)
  /\ Alloc(holds)
  /\ Map(Entry.monVPN + i, Page("vmm", NewFrame))
  /\ allocs' = [allocs EXCEPT ![line] = @ + 1]
  /\ NextPage
  /\ UNCHANGED <<status, table, blob>>

ZeroPage == Fill("zero", Zeroes)
CopyPage == AtPage("copy") /\ InBlob(Chunk(Entry, i)) /\ Fill("copy", Chunk(Entry, i))

\* A page that is allocated cannot be mapped: the page table is absent, or not tracked.
FilledNotMapped ==
  /\ AtPage("zero") \/ AtPage("copy")
  /\ Alloc(IF Entry.content = "zero" THEN Zeroes ELSE Junk)
  /\ Error
  /\ UNCHANGED <<table, blob, pte, allocs>>

\* It is mapped, and then the bytes are not in the blob.
CopyFails ==
  /\ AtPage("copy") /\ Known(Entry.monVPN + i) /\ ~InBlob(Chunk(Entry, i))
  /\ Alloc(Junk)
  /\ Map(Entry.monVPN + i, Page("vmm", NewFrame))
  /\ Error
  /\ UNCHANGED <<table, blob, allocs>>

\* MonLoaderShareFromBlob, one page.
ShareBlobPage ==
  LET num == Entry.offset \div PAGE_SIZE + i
  IN  /\ AtPage("share") /\ Entry.source = "blob"
      /\ num < Ceiling(BlobSize) /\ Known(Entry.monVPN + i)
      /\ Map(Entry.monVPN + i, Page("blob", num))
      /\ NextPage
      /\ UNCHANGED <<status, table, blob, frames, vmmTracker, allocs>>

\* MonLoaderCallout_GetSharedUserPage and GetSharedHostPage.
Shared(c, e, k) ==
  CASE e.sub = "header" -> Page("blob", 0)
    [] e.sub = "data"   -> Page("data", c)
    [] e.sub = "code"   -> Page("code", 0)
    [] OTHER            -> Page(e.sub, k)
Offered(e, k) == e.sub \notin Single => k < SharedPages[e.sub]

\* MonLoaderShareWork, one page.
SharePage ==
  /\ AtPage("share") /\ Entry.source \in {"user", "host"}
  /\ Offered(Entry, i) /\ Known(Entry.monVPN + i)
  /\ Map(Entry.monVPN + i, Shared(vcpu, Entry, i))
  /\ NextPage
  /\ UNCHANGED <<status, table, blob, frames, vmmTracker, allocs>>

\* Mutant: a region of which no page is shared is enough.
ShareLessThanAny ==
  /\ AtPage("share") /\ Entry.source \in {"user", "host"}
  /\ NextEntry
  /\ UNCHANGED <<status, table, blob, pages>>

\* No page is found: what is shared is enough, unless it is nothing; but there may be nothing
\* of the map to share.
SharePartly ==
  /\ AtPage("share") /\ Entry.source \in {"user", "host"}
  /\ Entry.sub \notin Single /\ (i # 0 \/ Entry.sub = HtMap)
  /\ NextEntry
  /\ UNCHANGED <<status, table, blob, pages>>

\* The first page is not found, a page is not in the blob, or it cannot be mapped.
ShareFails ==
  /\ AtPage("share") /\ Error
  /\ UNCHANGED <<table, blob, pages>>

-----------------------------------------------------------------------------
Next ==
  \/ Load \/ LoadFails \/ Finish \/ Failed \/ BootstrapCleanup
  \/ Skip \/ Reject \/ CreateAddressSpace \/ CreateAddressSpaceFails \/ MapPageTables
  \/ AllocFails \/ ZeroPage \/ CopyPage \/ FilledNotMapped \/ CopyFails
  \/ ShareBlobPage \/ SharePage \/ SharePartly \/ ShareFails

Spec == Init /\ [][Next]_vars

-----------------------------------------------------------------------------
(* Properties.                                                              *)

\* The type of every variable that is not fixed at the start.
TypeOK ==
  /\ status \in {"created", "process", "error", "booted", "failed"}
  /\ blob \in {"none", "loaded", "freed"}
  /\ vcpu \in VCPUs \cup {Cardinality(VCPUs)} /\ line \in 1 .. Max({1, Len(table)}) /\ i \in Nat
  /\ l1MPNs \subseteq L1s /\ hasAddrSpace \in BOOLEAN
  /\ DOMAIN pte = VCPUs /\ \A c \in VCPUs : DOMAIN pte[c] = Space
  /\ vmmTracker \subseteq DOMAIN frames
  /\ DOMAIN allocs = DOMAIN table /\ \A l \in DOMAIN table : allocs[l] \in Nat

\* A VCPU finds at page k of an entry what the entry says; of a region that is shared,
\* the pages there are, from the first on, of which there is one unless it is the map.
At(c, e, k) == pte[c][e.monVPN + k]
Holds(c, e, k) ==
  LET at == At(c, e, k)
  IN  CASE e.content \in {"zero", "copy"} ->
             /\ at.page.kind = "vmm" /\ at.flags = e.flags
             /\ frames[at.page.num] =
                  (IF e.content = "zero" THEN Zeroes
                   ELSE [offset |-> e.offset + k * PAGE_SIZE,
                         length |-> Min({PAGE_SIZE, e.size - k * PAGE_SIZE})])
        [] e.content = "share" /\ e.source = "blob" ->
             at = [page |-> Page("blob", e.offset \div PAGE_SIZE + k), flags |-> e.flags]
        [] OTHER ->
             \/ at = [page |-> Shared(c, e, k), flags |-> e.flags]
             \/ at = Unmapped /\ (k > 0 \/ e.sub = HtMap) /\ e.sub \notin Single

\* A monitor that is booted is the one its table describes: every page of an entry is
\* there on every VCPU that the entry is for, and nothing of it on any other.
TableLoaded ==
  status = "booted" =>
    \A c \in VCPUs, l \in DOMAIN table : Mapping(table[l]) =>
      \A k \in 0 .. Count(table[l]) - 1 :
        IF table[l].bspOnly /\ c # 0 THEN At(c, table[l], k) = Unmapped
        ELSE Holds(c, table[l], k)

\* No two places, of one VCPU or of two, share a page that was allocated, and no page of
\* the blob, which all VCPUs share, can be written unless it is shared as the header.
Separate ==
  \A c, d \in VCPUs, v, w \in Space :
    /\ (pte[c][v].page = pte[d][w].page /\ pte[c][v].page.kind = "vmm") => c = d /\ v = w
    /\ pte[c][v].page.kind = "blob" /\ pte[c][v].flags \in Writeable =>
         \E l \in DOMAIN table : table[l].sub = "header" /\ v \in Place(table[l])

\* However it ends, the kernel keeps no mapping of the monitor's pages; and the entries of
\* a booted monitor account for every page allocated.
Accounted ==
  /\ status \in {"booted", "failed"} => vmmTracker = {}
  /\ status = "booted" => MapThenSumSet(LAMBDA l : allocs[l], DOMAIN table) = Len(frames)
=============================================================================
