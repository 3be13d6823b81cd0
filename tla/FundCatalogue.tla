---------------------------- MODULE FundCatalogue ----------------------------
(***************************************************************************)
(* The catalogue of funds: how the provider's list makes products, share   *)
(* classes and the mapping of its codes to them, and how jobs refresh a    *)
(* product's basic information (data_service/ingest.py, company.py,        *)
(* cli.py, jobs/fund_ingestion.py).                                        *)
(*                                                                         *)
(* Three programs write it, each in one transaction: ingest-funds takes    *)
(* the list's rows one by one, a basic-info job its subjects, and a        *)
(* backfill all products without a company.  Rows of a product are written *)
(* under its lock, which lasts until the transaction ends; what was read   *)
(* or fetched before it may be old by then, also a day old: an answer      *)
(* counts from the day on which it was fetched, whenever it is written.  An*)
(* insert that finds its key taken by a transaction that then commits      *)
(* fails, and a deadlock makes one transaction fail: both are Fail.        *)
(*                                                                         *)
(* No product here has been reviewed.  Of one that has, a writer changes   *)
(* nothing but files a proposal (ClassificationReview).                    *)
(***************************************************************************)
EXTENDS ClassificationRules, Sequences

CONSTANTS
    Codes,      \* the provider's fund codes
    Classes,    \* share classes, the suffixes of display names
    Overviews,  \* what an overview may say of a fund
    Names,      \* usable names of management companies
    Lists,      \* the lists that the provider may answer
    Jobs,       \* basic-info jobs: the products of their subjects, in order
    Order,      \* all products in the order of their ids
    Legacy,     \* a product whose shares were grouped by their names, once
    Workers,    \* processes, each with a transaction at a time
    MaxBegun,   \* bound: transactions and acts of the operator
    LastDay     \* bound: the days

VARIABLES
    product,    \* fund and what hangs on it, in committed transactions
    identity,   \* provider_fund_identity: the open interval of each code
    tx,         \* what each worker has read and written in its transaction
    today,      \* the date by which answers are stamped
    begun,
    clock,      \* answers of the provider, which number their times
    raw,        \* raw_payload: rows
    answered,   \* answers that committed transactions received
    told        \* the last word on each product's company, and its time

vars == <<product, identity, tx, today, begun, clock, raw, answered, told>>

(* A product has the key of the code that made it. *)
Products == Codes \cup {Legacy}
Rows == [code : Codes, class : Classes, report : Reports]
Shares == [product : Products, class : Classes]
Datasets == {"fund_list", "fund_overview", "fund_index"}
Days == 0..LastDay

(* A product's row and what hangs on it: the evidence of the intervals of  *)
(* its latest revision, day by day, none before the first; the versions of *)
(* its history.  Besides, what the properties ask for: the data sets that  *)
(* have classified it, the day of the answer written last, how often that  *)
(* was an earlier day than the one before, and the types that were told.   *)
(* The last word on its company.                                           *)
Evidence ==
    [name : SUBSET (Assets \cup Strategies \cup Tags),
     formal_type : FormalTypes \cup {None},
     investment_strategy : {None} \cup SUBSET Clauses,
     tracking_target : Targets \cup {None},
     index_membership : Memberships \cup {None}]
Versions ==
    [report : Overviews \cup {NoReport}, name : Names \cup {None}, at : Nat]
Types == [type : FormalTypes, day : Days]
Product ==
    [classes : SUBSET Classes, evidence : [Days -> [Datasets -> Evidence] \cup {None}],
     revision : Nat, grouping : Nat, company : Names \cup {None}, history : Seq(Versions),
     heard : SUBSET Datasets, written : Days, late : Nat, types : [Datasets -> Types \cup {None}]]
Words == [name : Names, at : Nat]

ASSUME InputAssumption ==
    /\ Lists \subseteq Seq(Rows) /\ Jobs \subseteq Seq(Products) /\ Order \in Seq(Products)
    /\ Overviews \subseteq Reports
    /\ Legacy \notin Codes
    /\ LastDay \in Nat
    /\ None \notin Products \cup Shares \cup Names \cup Product \cup Words
                \cup Types \cup [Datasets -> Evidence]

Nothing == [d \in Datasets |-> NoEvidence]
NewProduct ==
    [classes |-> {}, evidence |-> [x \in Days |-> None], revision |-> 0, grouping |-> 0,
     company |-> None, history |-> <<>>,
     heard |-> {}, written |-> 0, late |-> 0, types |-> [d \in Datasets |-> None]]

(* A snapshot kept from before products had a company of their own, and    *)
(* what an earlier refresh has said of membership in a list of index funds.*)
Listed(membership) == [Nothing EXCEPT !["fund_index"].index_membership = membership]
Grouped(name, membership) ==
    [NewProduct EXCEPT !.classes = Classes,
                       !.evidence = IF membership = None THEN @
                                    ELSE [x \in Days |-> Listed(membership)],
                       !.revision = IF membership = None THEN 0 ELSE 1,
                       !.history = <<[report |-> NoReport, name |-> name, at |-> 0]>>]

Nowhere == [p \in Products |-> None]
Unmapped == [c \in Codes |-> None]

Init ==
    /\ \/ /\ product = Nowhere
          /\ identity = Unmapped
       \/ \E name \in Names, class \in [Codes -> Classes], listed \in Memberships \cup {None} :
            /\ \A c, d \in Codes : class[c] = class[d] => c = d
            /\ product = [Nowhere EXCEPT ![Legacy] = Grouped(name, listed)]
            /\ identity = [c \in Codes |-> [product |-> Legacy, class |-> class[c]]]
    /\ tx = [w \in Workers |-> None]
    /\ today = 0
    /\ begun = 0
    /\ clock = 0
    /\ raw = 0
    /\ answered = 0
    /\ told = [p \in Products |->
                 IF product[p] = None THEN None
                 ELSE [name |-> product[p].history[1].name, at |-> 0]]

-----------------------------------------------------------------------------
(* Transactions.  A worker holds the products that it has written.  Its day*)
(* is that of the answer in its hands.                                     *)

Begin(w, program, left, answers) ==
    /\ tx[w] = None
    /\ begun < MaxBegun
    /\ begun' = begun + 1
    /\ tx' = [tx EXCEPT ![w] =
                [program |-> program, left |-> left, seen |-> None, several |-> FALSE,
                 stage |-> "first", day |-> today, product |-> Nowhere, identity |-> Unmapped,
                 told |-> Nowhere, raw |-> answers, answered |-> answers,
                 stored |-> 0, captured |-> 0]]
    /\ UNCHANGED today

Runs(w, program, stage) ==
    /\ tx[w] # None
    /\ tx[w].program = program
    /\ tx[w].stage = stage
    /\ tx[w].left # <<>>

Holds(w, p) == tx[w] # None /\ tx[w].product[p] # None

(* A lock waits until no other worker holds the product. *)
Free(w, p) == \A v \in Workers \ {w} : ~Holds(v, p)
Maps(w, c) == tx[w] # None /\ tx[w].identity[c] # None

(* A statement sees what is committed and what its transaction wrote. *)
ProductSeen(w, p) == IF Holds(w, p) THEN tx[w].product[p] ELSE product[p]
IdentitySeen(w, c) ==
    IF Maps(w, c) THEN tx[w].identity[c] ELSE identity[c]

Stored(name) == [product |-> product, identity |-> identity, told |-> told][name]
Merged(w, name) ==
    [x \in DOMAIN Stored(name) |->
        IF tx[w][name][x] # None THEN tx[w][name][x] ELSE Stored(name)[x]]

Commit(w) ==
    /\ tx[w] # None
    /\ tx[w].left = <<>>
    /\ product' = Merged(w, "product")
    /\ identity' = Merged(w, "identity")
    /\ told' = [p \in Products |->
                  IF tx[w].told[p] # None /\ (told[p] = None \/ tx[w].told[p].at > told[p].at)
                  THEN tx[w].told[p] ELSE told[p]]
    /\ raw' = raw + tx[w].raw
    /\ answered' = answered + tx[w].answered
    /\ tx' = [tx EXCEPT ![w] = None]
    /\ UNCHANGED <<today, begun, clock>>

(* Whatever fails outside a job's item, or a worker that dies. *)
Fail(w) ==
    /\ tx[w] # None
    /\ tx' = [tx EXCEPT ![w] = None]
    /\ UNCHANGED <<today, product, identity, begun, clock, raw, answered, told>>

-----------------------------------------------------------------------------
(* Classification evidence                                                 *)

(* What is in force on a day: nothing before the first interval. *)
InForce(record, day) ==
    IF record.evidence[day] = None THEN Nothing ELSE record.evidence[day]

(* An answer is merged into what is in force on its own day, and the result*)
(* takes the place of all that is in force from then on: also of what later*)
(* answers said, when they were written first.                             *)
Written(record, dataset, report, day) ==
    [x \in Days |-> IF x >= day THEN Merge(InForce(record, day), dataset, report)
                    ELSE record.evidence[x]]

(* It makes a revision when its hash differs: because the evidence does, or*)
(* the citations of evidence that is kept, which hold the earlier ones.    *)
Makes(record, dataset, report, day, cited) ==
    \/ record.revision = 0
    \/ Written(record, dataset, report, day) # record.evidence
    \/ cited

(* The type that each data set told last, and its day; what was told on    *)
(* later days is not counted any more.                                     *)
Told(types, dataset, report, day) ==
    [d \in Datasets |->
        IF d = dataset /\ report.formal_type # None
        THEN [type |-> report.formal_type, day |-> day]
        ELSE IF types[d] # None /\ types[d].day > day THEN None ELSE types[d]]

(* The evidence of an answer, as if nothing else hung on a product. *)
Evidenced(record, dataset, report, day) ==
    [record EXCEPT !.evidence = Written(record, dataset, report, day),
                   !.types = Told(@, dataset, report, day),
                   !.heard = @ \cup {dataset},
                   !.late = IF day < record.written THEN @ + 1 ELSE @,
                   !.written = day]

\* Mutant of Classified: the case stays with the revision that it was filed for.
ClassifiedAnew(record, dataset, report, day, cited) ==
    [Evidenced(record, dataset, report, day) EXCEPT
        !.revision = IF Makes(record, dataset, report, day, cited) THEN @ + 1 ELSE @]

(* To a new revision, a case about the product's grouping is carried over. *)
Classified(record, dataset, report, day, cited) ==
    LET revision == record.revision + IF Makes(record, dataset, report, day, cited)
                                      THEN 1 ELSE 0
    IN  [Evidenced(record, dataset, report, day) EXCEPT
            !.revision = revision,
            !.grouping = IF @ = 0 THEN 0 ELSE revision]

-----------------------------------------------------------------------------
(* ingest-funds                                                            *)

IngestFunds(w) ==
    /\ \E list \in Lists : Begin(w, "ingest-funds", list, 1)
    /\ UNCHANGED <<product, identity, clock, raw, answered, told>>

(* A row begins with the share that its code is mapped to. *)
LookUp(w) ==
    /\ Runs(w, "ingest-funds", "first")
    /\ tx' = [tx EXCEPT ![w].seen = IdentitySeen(w, Head(tx[w].left).code),
                        ![w].stage = "register"]
    /\ UNCHANGED <<today, product, identity, begun, clock, raw, answered, told>>

(* A code keeps its share, whatever its name says now; a code without one  *)
(* has the product of its own key, and there the class of its name.        *)
ShareOf(row, seen) ==
    IF seen # None THEN seen ELSE [product |-> row.code, class |-> row.class]

\* Mutant of EnsureIdentity: the mapping follows the list.
EnsureIdentityMoving(open, share) == share

(* A code that is mapped elsewhere by now stays there and is reported. *)
EnsureIdentity(open, share) == IF open = None THEN share ELSE None

(* A row's transaction has its share, and what it writes of it, if any.    *)
Registered(t, share, several, written, code, mapped) ==
    [t EXCEPT !.stage = "classify",
              !.seen = share,
              !.several = several,
              !.product[share.product] = IF written # None THEN written ELSE @,
              !.identity[code] = IF mapped # None THEN mapped ELSE @]

(* What is missing is inserted: the product, the share, the mapping.  An   *)
(* insert waits for those who write the product or map the code.           *)
Register(w) ==
    /\ Runs(w, "ingest-funds", "register")
    /\ LET row == Head(tx[w].left)
           share == ShareOf(row, tx[w].seen)
           p == share.product
           open == IdentitySeen(w, row.code)
           old == ProductSeen(w, p)
           new == IF old = None THEN [NewProduct EXCEPT !.classes = {share.class}]
                  ELSE [old EXCEPT !.classes = @ \cup {share.class}]
           written == IF new # old THEN new ELSE None
           mapped == EnsureIdentity(open, share)
       IN  /\ written # None => Free(w, p)
           /\ mapped # None => \A v \in Workers \ {w} : ~Maps(v, row.code)
           /\ tx' = [tx EXCEPT ![w] = Registered(@, share, Cardinality(new.classes) > 1,
                                                 written, row.code, mapped)]
    /\ UNCHANGED <<today, product, identity, begun, clock, raw, answered, told>>

(* Under the product's lock; a product of several shares gets a case about *)
(* its grouping, one for its latest revision.                              *)
Classify(w) ==
    /\ Runs(w, "ingest-funds", "classify")
    /\ \E cited \in BOOLEAN :
        LET row == Head(tx[w].left)
            p == tx[w].seen.product
            new == Classified(ProductSeen(w, p), "fund_list", row.report, tx[w].day, cited)
        IN  /\ Free(w, p)
            /\ tx' = [tx EXCEPT
                 ![w].stage = "first",
                 ![w].left = Tail(@),
                 ![w].seen = None,
                 ![w].several = FALSE,
                 ![w].product[p] = IF tx[w].several
                                   THEN [new EXCEPT !.grouping = new.revision] ELSE new]
    /\ UNCHANGED <<today, product, identity, begun, clock, raw, answered, told>>

(* A reassignment is for the operator, who closes the interval by hand. *)
CloseIdentity(c) ==
    /\ identity[c] # None
    /\ begun < MaxBegun
    /\ begun' = begun + 1
    /\ identity' = [identity EXCEPT ![c] = None]
    /\ UNCHANGED <<today, product, tx, clock, raw, answered, told>>

-----------------------------------------------------------------------------
(* Basic-info jobs                                                         *)

BasicInfo(w) ==
    /\ \E subjects \in Jobs :
        /\ \A i \in DOMAIN subjects : product[subjects[i]] # None
        /\ Begin(w, "basic-info", subjects, 0)
    /\ UNCHANGED <<product, identity, clock, raw, answered, told>>

(* An answer is stored within the savepoint of its subject, and captured.  *)
Answered(t) ==
    [t EXCEPT !.answered = @ + 1, !.stored = @ + 1, !.captured = @ + 1]

EndOfItem(t) == [t EXCEPT !.stage = "first", !.left = Tail(@), !.seen = None,
                          !.stored = 0, !.captured = 0]

ItemSucceeded(t) == [EndOfItem(t) EXCEPT !.raw = @ + t.stored]

\* Mutant of ItemFailed: what is captured is stored on top of what was stored.
ItemFailedTwice(t) == [EndOfItem(t) EXCEPT !.raw = @ + t.stored + t.captured]

(* The savepoint of a subject that fails takes back what was stored; what  *)
(* was captured is stored again.                                           *)
ItemFailed(t) == [EndOfItem(t) EXCEPT !.raw = @ + t.captured]

(* Errors of the provider come with its answer, or without. *)
Errors(t) == {ItemFailed(Answered(t)), ItemFailed(t)}

(* The overview is fetched before the product is locked. *)
FetchOverview(w) ==
    /\ Runs(w, "basic-info", "first")
    /\ \/ \E report \in Overviews :
            /\ clock' = clock + 1
            /\ tx' = [tx EXCEPT ![w] =
                        [Answered(tx[w]) EXCEPT !.stage = "refresh", !.day = today,
                                                !.seen = [report |-> report, at |-> clock']]]
       \/ /\ \E failed \in Errors(tx[w]) : tx' = [tx EXCEPT ![w] = failed]
          /\ UNCHANGED clock
    /\ UNCHANGED <<today, product, identity, begun, raw, answered, told>>

(* A content that is that of the last version makes no new version. *)
Versioned(history, overview, name) ==
    LET version == [report |-> overview.report, name |-> name, at |-> overview.at]
    IN  IF /\ history # <<>>
           /\ history[Len(history)].report = version.report
           /\ history[Len(history)].name = version.name
        THEN history ELSE Append(history, version)

(* A company that is not told is not forgotten. *)
Projected(company, name) == IF name = None THEN company ELSE name

(* History, company and evidence of a product after both answers. *)
Refreshed(record, overview, name, day, cited) ==
    [Classified(record, "fund_overview", overview.report, day, cited) EXCEPT
        !.history = Versioned(@, overview, name),
        !.company = Projected(@, name)]

(* A subject with both answers is written, and its item has succeeded.     *)
Heard(t, p, name, time, record) ==
    [ItemSucceeded(Answered(t)) EXCEPT
        !.told[p] = IF name = None THEN @ ELSE [name |-> name, at |-> time],
        !.product[p] = record]

(* The other data set's answer for the code tells one usable name or none; *)
(* any other answer is an error.                                           *)
CompanyAnswers == Names \cup {None}

(* Under the product's lock, the company is fetched from another data set. *)
RefreshFund(w) ==
    /\ Runs(w, "basic-info", "refresh")
    /\ LET p == Head(tx[w].left)
       IN  /\ Free(w, p)
           /\ \/ \E name \in CompanyAnswers, cited \in BOOLEAN :
                   /\ clock' = clock + 1
                   /\ tx' = [tx EXCEPT ![w] =
                        Heard(@, p, name, clock',
                              Refreshed(ProductSeen(w, p), @.seen, name, @.day, cited))]
              \/ /\ \E failed \in Errors(tx[w]) : tx' = [tx EXCEPT ![w] = failed]
                 /\ UNCHANGED clock
    /\ UNCHANGED <<today, product, identity, begun, raw, answered, told>>

-----------------------------------------------------------------------------
(* backfill-fund-company-names --apply                                     *)

Backfill(w) ==
    /\ Begin(w, "backfill", Order, 0)
    /\ UNCHANGED <<product, identity, clock, raw, answered, told>>

(* The name of the latest snapshot that has one. *)
Candidate(history) ==
    LET named == {v \in DOMAIN history : history[v].name # None}
        After(u, v) == history[u].at > history[v].at \/ (history[u].at = history[v].at /\ u >= v)
    IN  IF named = {} THEN None
        ELSE history[CHOOSE u \in named : \A v \in named : After(u, v)].name

Lacking(p) == product[p] # None /\ product[p].company = None

\* Mutant of BackfillFund: what lacks a company is not locked.
BackfillFundUnlocked(w) ==
    /\ Runs(w, "backfill", "first")
    /\ LET p == Head(tx[w].left)
       IN  tx' = [tx EXCEPT
                ![w].left = Tail(@),
                ![w].product[p] =
                    IF Lacking(p)
                    THEN [product[p] EXCEPT !.company = Candidate(product[p].history)]
                    ELSE @]
    /\ UNCHANGED <<today, product, identity, begun, clock, raw, answered, told>>

(* The products without a company are locked in the order of their ids; one*)
(* that has a company when its lock is granted is passed over.             *)
BackfillFund(w) ==
    /\ Runs(w, "backfill", "first")
    /\ LET p == Head(tx[w].left)
       IN  /\ Lacking(p) => Free(w, p)
           /\ tx' = [tx EXCEPT
                ![w].left = Tail(@),
                ![w].product[p] =
                    IF Lacking(p)
                    THEN [product[p] EXCEPT !.company = Candidate(product[p].history)]
                    ELSE @]
    /\ UNCHANGED <<today, product, identity, begun, clock, raw, answered, told>>

(* Answers of two days may be in hand at once. *)
Midnight ==
    /\ today < LastDay
    /\ today' = today + 1
    /\ UNCHANGED <<product, identity, tx, begun, clock, raw, answered, told>>

-----------------------------------------------------------------------------
Next ==
    \/ \E w \in Workers :
        \/ IngestFunds(w) \/ LookUp(w) \/ Register(w) \/ Classify(w)
        \/ BasicInfo(w) \/ FetchOverview(w) \/ RefreshFund(w)
        \/ Backfill(w) \/ BackfillFund(w)
        \/ Commit(w) \/ Fail(w)
    \/ \E c \in Codes : CloseIdentity(c)
    \/ Midnight

Spec == Init /\ [][Next]_vars
-----------------------------------------------------------------------------
(* Properties *)

(* However lists differ and race, no ingestion moves a code that is mapped *)
(* to another share: the values of a fund never end up in the history of   *)
(* another (ingest.py, _ensure_provider_identity; index                    *)
(* uq_pfi_open_interval).                                                  *)
MappingStands ==
    [][\A c \in Codes : identity[c] # None => identity'[c] \in {identity[c], None}]_vars

(* A product that a list left with several shares stays in the review of   *)
(* groupings: its case belongs to the latest revision, whichever program   *)
(* wrote that (ingest.py, ingest_fund_list; service.py, write).            *)
GroupingInReview ==
    \A p \in Products :
        LET it == product[p]
        IN  it # None /\ Cardinality(it.classes) > 1 /\ "fund_list" \in it.heard
            => it.grouping = it.revision

(* The company that is shown is the provider's last word on it, also when  *)
(* jobs overlap, fail, hear nothing or race with the backfill (ingest.py,  *)
(* ingest_fund_overview; company.py, backfill_fund_company_names).         *)
CompanyIsLastWord ==
    \A p \in Products : told[p] # None =>
        \/ product[p].company = told[p].name
        \/ product[p].company = None /\ told[p].at = 0

(* On every day, a product of which two data sets told types of different  *)
(* classes by then is in conflict and under review, however often the one  *)
(* repeats itself and whatever it says besides; a class is confirmed when  *)
(* all agree that told one.  An answer of an earlier day that is written   *)
(* late takes the word of those that told theirs on later days (ingest.py, *)
(* classify_fields; policy current.yaml: never authority to discard        *)
(* contradictions).                                                        *)
DisputesStand ==
    \A p \in Products, day \in Days : product[p] # None =>
        LET words == {product[p].types[d] : d \in Datasets} \ {None}
            classes == {AssetOf[w.type] : w \in {w \in words : w.day <= day}} \ {"UNKNOWN"}
            evidence == InForce(product[p], day)
        IN  /\ Cardinality(classes) > 1 =>
                 <<"asset_class", "CONFLICT">> \in ReviewItems(evidence)
            /\ AssetClass(evidence).status = "CONFIRMED" =>
                 classes \subseteq {AssetClass(evidence).value}

(* Unless a commit writes an answer of an earlier day than the one that was*)
(* written before, no day forgets what was disclosed, whatever later       *)
(* answers leave out; nor that a quantitative tag was confirmed or is      *)
(* disputed while they leave the strategy out (strategy.py,                *)
(* classify_strategy keeps insufficient evidence; ingest.py,               *)
(* classify_fields).                                                       *)
DisclosuresStand ==
    [][\A p \in Products, day \in Days :
        product[p] # None /\ product'[p].late = product[p].late =>
          LET old == InForce(product[p], day)
              new == InForce(product'[p], day)
          IN  /\ \A d \in Datasets, f \in ContextFields : old[d][f] # None => new[d][f] # None
              /\ Quantitative(old) \in {"CONFIRMED", "CONFLICT"}
                   /\ (\A d \in Datasets : new[d].investment_strategy
                                             = old[d].investment_strategy)
                   => Quantitative(new) = Quantitative(old)]_vars

(* Every answer that a transaction got before it committed is kept once,   *)
(* also that of a subject that failed and was rolled back                  *)
(* (jobs/fund_ingestion.py, _CapturingAdapter and handle_fund_ingestion).  *)
AnswersAreKept == raw = answered
=============================================================================
