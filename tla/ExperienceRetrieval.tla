------------------------ MODULE ExperienceRetrieval -------------------------
(***************************************************************************)
(* Retrieval of earlier experience for the Builder's agents                *)
(* (Builder/src/autolean_builder/experience.py).  A catalog holds records  *)
(* of earlier conversions; a query asks for those that apply to a role, a  *)
(* domain and a frontier of the graph, may be shown at an endpoint, and    *)
(* fit into a number of items and of tokens.  The answer is a context      *)
(* pack, kept as a file, which anyone may edit; a later process loads it,  *)
(* replays the query against its own catalog and compares.                 *)
(*                                                                         *)
(* A record is its content and hash a number that stands for its digest;   *)
(* two records have the same digest only when they are equal.  Texts are   *)
(* left out but for their length in canonical JSON, which the token budget *)
(* depends on.                                                             *)
(***************************************************************************)
EXTENDS Naturals, Sequences, FiniteSets, SequencesExt

CONSTANTS
    RecordInputs,  \* fields a caller builds records from, valid or not
    QueryInputs,   \* fields a caller builds queries from, valid or not
    EnvelopeSize,  \* bytes of a pack besides its query, lists and estimate
    HashSize,      \* bytes of one digest in a list
    Readers,       \* processes with a catalog
    NoCatalog

VARIABLES
    catalog,  \* reader -> NoCatalog or the records of its catalog
    packFile, \* the file a pack is kept in: NoCatalog or its content
    packs,    \* packs retrieved: [from, pack], from the catalog they came from
    replays   \* packs whose replay was accepted: [from, pack]

experienceVars == <<catalog, packFile, packs, replays>>

ExperienceInit ==
    /\ catalog = [p \in Readers |-> NoCatalog]
    /\ packFile = NoCatalog
    /\ packs = {}
    /\ replays = {}

\* _validate_untrusted_text: text is told apart by what it contains.
TextClean(traits) == traits \cap {"control", "bidirectional", "prompt_marker", "secret"} = {}

\* ExperienceSource.__post_init__
ProvenanceValid(source) == source.spans # {}

\* ExperienceOutcome
Outcomes == {"success_pattern", "negative_evidence", "gap"}

\* ExperienceEndpoint
Endpoints == {"local", "approved_external"}

\* The types of the dataclasses: names are of the two enumerations, paths and
\* frontiers are tuples, and a digest tells records apart.
ASSUME ExperienceAssumption ==
    /\ EnvelopeSize \in Nat /\ HashSize \in Nat
    /\ \A r \in RecordInputs :
           /\ r.hash \in Nat /\ r.size \in Nat
           /\ r.outcome \in Outcomes /\ r.rights.endpoints \subseteq Endpoints
           /\ Len(r.applies.domain) \in Nat
           /\ IsFiniteSet(r.applies.frontier) /\ IsFiniteSet(r.applies.conditions)
    /\ \A r, s \in RecordInputs : r.hash = s.hash => r = s
    /\ \A q \in QueryInputs :
           /\ {"endpoint", "size"} \subseteq DOMAIN q /\ q.size \in Nat
           /\ q.endpoint \in Endpoints /\ q.outcomes \subseteq Outcomes

\* RightsEgressPolicy.__post_init__
RightsValid(rights) ==
    /\ "local" \in rights.endpoints
    /\ ("approved_external" \in rights.endpoints) <=> rights.reviewed

\* ExperienceApplicability.__post_init__
ApplicabilityValid(applicability) ==
    /\ applicability.roles # {}
    /\ applicability.domain # <<>>
    /\ applicability.conditions # {}

\* FailureEvidence.__post_init__, ExperienceRecord.__post_init__: a bad outcome
\* is backed by evidence.
RecordValid(record) ==
    /\ ProvenanceValid(record.source)
    /\ RightsValid(record.rights) /\ ApplicabilityValid(record.applies)
    /\ TextClean(record.traits)
    /\ record.outcome \in {"negative_evidence", "gap"} => record.evidence # {}

\* The token budgets a query may ask for.
LeastBudget == 128

LargestBudget == 131072

\* ExperienceQuery.__post_init__
QueryValid(query) ==
    /\ query.domain # <<>> /\ query.outcomes # {}
    /\ query.maxItems \in 1 .. 64 /\ query.maxTokens \in LeastBudget .. LargestBudget

\* ExperienceRetriever._eligible
Eligible(record, query) ==
    /\ query.role \in record.applies.roles
    /\ IsPrefix(record.applies.domain, query.domain)
    /\ record.applies.frontier \subseteq query.frontier
    /\ record.rights.scope = query.scope
    /\ query.endpoint \in record.rights.endpoints
    /\ record.outcome \in query.outcomes

\* _rank_key: the most specific first, then by digest.
RanksBefore(r, s) ==
    LET a == r.applies b == s.applies
        key == <<Len(b.domain), Cardinality(b.frontier), Cardinality(b.conditions), r.hash>>
        other == <<Len(a.domain), Cardinality(a.frontier), Cardinality(a.conditions), s.hash>> IN
    \E i \in 1 .. 4 : key[i] < other[i] /\ \A j \in 1 .. i - 1 : key[j] = other[j]

\* Digits of a number in JSON.
Digits(n) ==
    LET digits[m \in Nat] == IF m < 10 THEN 1 ELSE 1 + digits[m \div 10]
    IN  digits[n]

\* A JSON list of elements of the given lengths, without its brackets.
ListSize(sizes) == SumFunction(sizes) + (IF sizes = <<>> THEN 0 ELSE Len(sizes) - 1)

\* Bytes of a pack without the digits of its estimate: the whole list of
\* candidates is part of it, and each record with its digest.
PackSize(query, candidates, records) ==
    EnvelopeSize + query.size + ListSize([i \in DOMAIN candidates |-> HashSize])
        + ListSize([i \in DOMAIN records |-> HashSize + records[i].size])

\* Mutant: the estimate does not count itself.
EstimateTokensAlone(size) == (size + 3) \div 4

\* _estimate_pack_tokens: a quarter of the bytes, rounded up, the estimate's
\* own digits among them; the loop starts at 0.
EstimateTokens(size) ==
    LET loop[estimate \in Nat] ==
            LET updated == (size + Digits(estimate) + 3) \div 4 IN
            IF updated = estimate THEN estimate ELSE loop[updated]
    IN  loop[0]

Tokens(query, candidates, records) == EstimateTokens(PackSize(query, candidates, records))

\* ExperienceCatalog.records with _eligible and the sort: the i-th candidate is
\* the one with i - 1 others before it.
Candidates(records, query) ==
    LET eligible == {r \in records : Eligible(r, query)} IN
    [i \in 1 .. Cardinality(eligible) |->
        CHOOSE r \in eligible : Cardinality({s \in eligible : RanksBefore(s, r)}) = i - 1]

\* retrieve: in order of rank, a candidate is taken when it still fits; one
\* that does not is passed over and the next is tried.
Selection(query, candidates) ==
    LET selected[n \in 0 .. Len(candidates)] ==
            IF n = 0 THEN <<>>
            ELSE LET trial == Append(selected[n - 1], candidates[n]) IN
                 IF Len(trial) <= query.maxItems /\ Tokens(query, candidates, trial) <= query.maxTokens
                   THEN trial ELSE selected[n - 1]
    IN  selected[Len(candidates)]

Hashes(records) == [i \in DOMAIN records |-> records[i].hash]

Retrieved(records, query) ==
    LET candidates == Candidates(records, query)
        selected == Selection(query, candidates) IN
    [query |-> query, querySha |-> query, candidates |-> Hashes(candidates), records |-> selected,
     tokens |-> Tokens(query, candidates, selected)]

\* retrieve raises when not even an empty pack fits.
EnvelopeFits(records, query) ==
    Tokens(query, Candidates(records, query), <<>>) <= query.maxTokens

\* ExperienceContextPack.__post_init__.  A query is its own digest.
PackValid(pack) ==
    /\ pack.querySha = pack.query
    /\ IsInjective(pack.candidates) /\ IsInjective(Hashes(pack.records))
    /\ \A i \in DOMAIN pack.records : pack.records[i].hash \in Range(pack.candidates)
    /\ Len(pack.records) <= pack.query.maxItems
    /\ pack.tokens = Tokens(pack.query, pack.candidates, pack.records)
    /\ pack.tokens <= pack.query.maxTokens

\* ExperienceContextPack.render: each digest is written down beside what it is
\* the digest of.
Rendered(pack) ==
    [canonical |-> TRUE, untrusted |-> TRUE, query |-> pack.query, querySha |-> pack.querySha,
     candidates |-> pack.candidates, candidateSet |-> pack.candidates,
     records |-> [i \in DOMAIN pack.records |->
                     [record |-> pack.records[i], sha |-> pack.records[i].hash]],
     tokens |-> pack.tokens]

\* _query_from_payload
QueryParses(query) ==
    /\ query.endpoint \in Endpoints /\ query.outcomes \subseteq Outcomes
    /\ QueryValid(query)

\* _record_from_payload
RecordParses(record) ==
    /\ record.outcome \in Outcomes
    /\ record.rights.endpoints \subseteq Endpoints
    /\ RecordValid(record)

Parsed(content) ==
    [query |-> content.query, querySha |-> content.querySha, candidates |-> content.candidates,
     records |-> [i \in DOMAIN content.records |-> content.records[i].record],
     tokens |-> content.tokens]

\* ExperienceContextPack.from_bytes: no digest in the file is believed.
FromBytes(content) ==
    /\ content.canonical /\ content.untrusted
    /\ QueryParses(content.query)
    /\ content.candidateSet = content.candidates
    /\ \A i \in DOMAIN content.records :
           /\ RecordParses(content.records[i].record)
           /\ content.records[i].sha = content.records[i].record.hash
    /\ PackValid(Parsed(content))
    /\ Rendered(Parsed(content)) = content

\* A process builds its catalog; the same record given twice counts once.
OpenCatalog(p, records) ==
    /\ catalog[p] = NoCatalog
    /\ IsFiniteSet(records) /\ \A r \in records : RecordValid(r)
    /\ catalog' = [catalog EXCEPT ![p] = records]
    /\ UNCHANGED <<packFile, packs, replays>>

\* A catalog is immutable: it goes when its process does.
CloseCatalog(p) ==
    /\ catalog[p] # NoCatalog
    /\ catalog' = [catalog EXCEPT ![p] = NoCatalog]
    /\ UNCHANGED <<packFile, packs, replays>>

\* retrieve: the pack it builds is validated once more; its caller keeps it.
Retrieve(p, query) ==
    /\ catalog[p] # NoCatalog /\ QueryValid(query)
    /\ EnvelopeFits(catalog[p], query)
    /\ LET pack == Retrieved(catalog[p], query) IN
       /\ PackValid(pack)
       /\ packs' = packs \cup {[from |-> catalog[p], pack |-> pack]}
       /\ packFile' = Rendered(pack)
    /\ UNCHANGED <<catalog, replays>>

\* Edits of a kept pack (external): an estimate, a candidate or a record fewer,
\* one record for another, a query for another endpoint, other formatting; the
\* digests and the estimate are brought up to date or not.
Edits(content) ==
    LET shorter == [content EXCEPT !.records = Front(@)]
        fewer == [shorter EXCEPT !.candidates = Hashes(Parsed(shorter).records), !.candidateSet = @]
        swapped(record, sha) == [content EXCEPT !.records[1] = [record |-> record, sha |-> sha]]
        settled(c) == [c EXCEPT !.candidateSet = c.candidates, !.querySha = c.query,
                                !.tokens = Tokens(c.query, c.candidates, Parsed(c).records)] IN
    {[content EXCEPT !.tokens = @ + 1], [content EXCEPT !.canonical = FALSE],
     [content EXCEPT !.query.endpoint = "approved_external"],
     settled([content EXCEPT !.query.endpoint = "approved_external"])} \cup
    (IF content.records = <<>> THEN {}
     ELSE {shorter, settled(shorter), fewer, settled(fewer)} \cup
          UNION {{swapped(r, r.hash), settled(swapped(r, r.hash)), swapped(r, content.records[1].sha)} :
                     r \in RecordInputs})

EditPack(content) ==
    /\ packFile' = content
    /\ UNCHANGED <<catalog, packs, replays>>

\* from_bytes, then replay: retrieve again and compare the bytes.
Replay(p) ==
    /\ catalog[p] # NoCatalog /\ packFile # NoCatalog
    /\ FromBytes(packFile)
    /\ EnvelopeFits(catalog[p], packFile.query)
    /\ LET pack == Retrieved(catalog[p], packFile.query) IN
       /\ PackValid(pack)
       /\ Rendered(pack) = Rendered(Parsed(packFile))
       /\ replays' = replays \cup {[from |-> catalog[p], pack |-> Parsed(packFile)]}
    /\ UNCHANGED <<catalog, packFile, packs>>

ExperienceNext ==
    \/ \E p \in Readers :
          \/ \E records \in SUBSET RecordInputs : OpenCatalog(p, records)
          \/ CloseCatalog(p)
          \/ \E query \in QueryInputs : Retrieve(p, query)
          \/ Replay(p)
    \/ packFile # NoCatalog /\ \E content \in Edits(packFile) : EditPack(content)

ExperienceSpec == ExperienceInit /\ [][ExperienceNext]_experienceVars

-----------------------------------------------------------------------------
\* What may be shown for a query, and how much of it, be the pack retrieved or
\* an old one, whatever was done to its file, that a replay accepted: every
\* record was meant for the role and may go to the endpoint (an outside one
\* only after review); the bytes of the pack, the digits of its estimate
\* included, are within the budget; no candidate left out would still have
\* fitted.  A pack is replayed only on a catalog that has the same records to
\* offer, and retrieve never builds a pack that its own validation or a later
\* load refuses.
ExperienceSound ==
    /\ \A kept \in packs \cup replays :
          LET pack == kept.pack q == pack.query IN
          /\ \A i \in DOMAIN pack.records :
                 LET record == pack.records[i] IN
                 /\ q.role \in record.applies.roles /\ record.rights.scope = q.scope
                 /\ q.endpoint = "approved_external" => record.rights.reviewed
          /\ PackSize(q, pack.candidates, pack.records) + Digits(pack.tokens) <= 4 * q.maxTokens
          /\ \A r \in kept.from : Eligible(r, q) /\ r \notin Range(pack.records) =>
                 \/ Len(pack.records) = q.maxItems
                 \/ Tokens(q, pack.candidates, Append(pack.records, r)) > q.maxTokens
    /\ \A kept \in packs, replay \in replays :
          kept.pack = replay.pack =>
              {r \in replay.from : Eligible(r, kept.pack.query)} =
              {r \in kept.from : Eligible(r, kept.pack.query)}
    /\ \A p \in Readers, query \in QueryInputs :
          catalog[p] # NoCatalog /\ QueryValid(query) /\ EnvelopeFits(catalog[p], query) =>
              FromBytes(Rendered(Retrieved(catalog[p], query)))
=============================================================================
