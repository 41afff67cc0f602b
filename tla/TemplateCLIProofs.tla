-------------------------- MODULE TemplateCLIProofs --------------------------
(***************************************************************************)
(* TLAPS proofs that the server only ever holds templates whose TTLs fit  *)
(* their int32 fields (TypeOK), that every template create stores has    *)
(* TTLs of zero or more (CreatedTtlsInRange) and exactly the TTLs of its  *)
(* flags (CreatedTtlsAsGiven), and that template show                     *)
(* lists every template present throughout its loop, once                 *)
(* (ShowListsStableTemplates), for any IDs, selectors, TTL flags, int32   *)
(* width, page size and bounds.                                            *)
(*                                                                         *)
(* The first three invariants are inductive as they stand.  What carries them is     *)
(* create's order of checks: a template reaches BatchCreate only after    *)
(* validate has refused negative TTLs and parseConfig's CheckedCast has   *)
(* refused TTLs outside int32, and after ParseSelector has refused every  *)
(* bad selector.                                                           *)
(*                                                                         *)
(* ShowListsStableTemplates is not inductive: it says nothing of the loop *)
(* before its last page.  ShowInv adds what holds while show fetches:     *)
(* the listed IDs are distinct and at most the token, and every template  *)
(* present since the start up to the token is listed.  Its step rests on *)
(* three facts about the server's page: its IDs lie past the token        *)
(* (PageAfterToken), it holds every ID of the store between the token and *)
(* its last ID (PageIsPrefix), and it is empty only when nothing of the   *)
(* store lies past the token (PageNonEmpty, by the least such ID).        *)
(***************************************************************************)
EXTENDS TemplateCLI, FiniteSetTheorems, SequenceTheorems, TLAPS

USE TemplateConstAssumption

(* The templates other clients store are well formed.                    *)
LEMMA BaseTemplate == Base \in Templates
BY DEF Base, Templates, Int32

(* A template create builds after parseConfig succeeds fits the store.    *)
LEMMA ParsedTemplate ==
    ASSUME NEW i \in CreateInputs, ParseConfig(i) = "ok"
    PROVE  Template(i) \in Templates
<1>1. i.x509 \in Int32 /\ i.jwt \in Int32 /\ BadSel \notin i.selectors
    BY DEF ParseConfig, CheckedCast
<1>2. i.selectors \subseteq Sels
    BY <1>1 DEF CreateInputs
<1>3. QED
    BY <1>1, <1>2 DEF Template, CheckedCast, Templates

(* The template create builds carries its flags' TTLs unchanged.          *)
LEMMA TemplateTtls ==
    ASSUME NEW i \in CreateInputs
    PROVE  Template(i).x509 = i.x509 /\ Template(i).jwt = i.jwt
BY DEF Template, CheckedCast

(* validate refuses a negative TTL.                                       *)
LEMMA ValidatedTtls ==
    ASSUME NEW i \in CreateInputs, CreateValidate(i) = "ok"
    PROVE  i.x509 >= 0 /\ i.jwt >= 0
<1>1. i.x509 \in Int /\ i.jwt \in Int
    BY DEF CreateInputs
<1>2. ~(i.x509 < 0) /\ ~(i.jwt < 0)
    BY DEF CreateValidate
<1>3. QED
    BY <1>1, <1>2

(* A page is listed as a sequence of IDs.                                 *)
LEMMA PageListsAreSeqs ==
    ASSUME NEW page \in SUBSET Ids
    PROVE  PageLists(page) \subseteq Seq(Ids)
<1>1. IsFiniteSet(page)
    BY FS_Subset
<1>2. Cardinality(page) \in Nat
    BY <1>1, FS_CardinalityType
<1>3. ASSUME NEW l \in PageLists(page) PROVE l \in Seq(Ids)
    <2>1. l \in [1..Cardinality(page) -> Ids]
        BY DEF PageLists
    <2>2. QED
        BY <1>2, <2>1
<1>4. QED
    BY <1>3

(* The server pages and their tokens come from the store.                 *)
LEMMA PageFromStore ==
    ASSUME NEW tok
    PROVE  /\ ServerPage(tok) \subseteq DOMAIN store
           /\ NextPageTokens(ServerPage(tok)) \subseteq ServerPage(tok) \cup {0}
BY DEF ServerPage, NextPageTokens

(* The server's page after tok holds IDs of the store past tok.           *)
LEMMA PageAfterToken ==
    ASSUME NEW tok, NEW id \in ServerPage(tok)
    PROVE  id \in DOMAIN store /\ id > tok
BY DEF ServerPage

(* The page is a prefix of the IDs after tok: an ID of the store between  *)
(* tok and an ID of the page is on the page.                              *)
LEMMA PageIsPrefix ==
    ASSUME DOMAIN store \subseteq Ids, NEW tok \in Int,
           NEW t \in ServerPage(tok), NEW id \in DOMAIN store, tok < id, id <= t
    PROVE  id \in ServerPage(tok)
<1> DEFINE after == {j \in DOMAIN store : j > tok}
           below(x) == {j \in after : j < x}
<1>1. IsFiniteSet(after) /\ after \subseteq Nat
    BY FS_Subset
<1>2. t \in after /\ Cardinality(below(t)) < PageSize
    BY DEF ServerPage
<1>3. below(id) \subseteq below(t)
    BY <1>1, <1>2
<1>4. Cardinality(below(id)) <= Cardinality(below(t))
    BY <1>1, <1>3, FS_Subset
<1>5. IsFiniteSet(below(t)) /\ IsFiniteSet(below(id))
    BY <1>1, FS_Subset
<1>6. Cardinality(below(id)) < PageSize
    BY <1>2, <1>4, <1>5, FS_CardinalityType
<1>7. QED
    BY <1>6 DEF ServerPage

(* While the store holds an ID past tok, the server's page is not empty:  *)
(* the least such ID is on it.                                             *)
LEMMA PageNonEmpty ==
    ASSUME DOMAIN store \subseteq Ids, NEW tok, NEW id \in DOMAIN store, id > tok
    PROVE  ServerPage(tok) # {}
<1> DEFINE after == {j \in DOMAIN store : j > tok}
<1>1. after \subseteq Nat /\ after # {}
    OBVIOUS
<1>2. PICK m \in after : \A y \in after : ~(<<y, m>> \in OpToRel(<, Nat))
    BY <1>1, WFMin, NatLessThanWellFounded
<1>3. \A y \in after : ~(y < m)
    BY <1>1, <1>2 DEF OpToRel
<1>4. {j \in after : j < m} = {}
    BY <1>3
<1>5. Cardinality({j \in after : j < m}) < PageSize
    BY <1>4, FS_EmptySet
<1>6. QED
    BY <1>5 DEF ServerPage

(* A page is listed once each, in some order, as a sequence of IDs.      *)
LEMMA PageListOnto ==
    ASSUME NEW page \in SUBSET Ids, NEW l \in PageLists(page)
    PROVE  l \in Seq(Ids) /\ Range(l) = page /\ IsInjective(l)
<1> DEFINE n == Cardinality(page)
<1>1. IsFiniteSet(page) /\ n \in Nat
    BY FS_Subset, FS_CardinalityType
<1>2. l \in Injection(1..n, page)
    BY DEF PageLists, Injection, IsInjective
<1>3. IsFiniteSet(1..n) /\ Cardinality(1..n) = n
    BY <1>1, FS_Interval
<1>4. l \in Surjection(1..n, page)
    BY <1>1, <1>2, <1>3, FS_Injection
<1>5. Range(l) = page
    BY <1>4 DEF Surjection, Range
<1>6. QED
    BY <1>2, <1>5, PageListsAreSeqs DEF Injection

(* NextPageToken is "" exactly after an empty page, and else the page's  *)
(* last ID.                                                                *)
LEMMA NextTokenOfPage ==
    ASSUME NEW page \in SUBSET Ids, NEW t \in NextPageTokens(page)
    PROVE  /\ t = 0 <=> page = {}
           /\ t # 0 => t \in page /\ \A id \in page : id <= t
BY DEF NextPageTokens

(* An ID up to the token differs from one past it.                        *)
LEMMA SeparatedByToken ==
    ASSUME NEW a \in Ids, NEW b, NEW tok \in Int, a <= tok, b > tok
    PROVE  a # b
OBVIOUS

(* Appending a list after one whose IDs are all smaller keeps the result  *)
(* free of repeats, and lists the IDs of both.                             *)
LEMMA AppendAbove ==
    ASSUME NEW s \in Seq(Ids), NEW l \in Seq(Ids), IsInjective(s), IsInjective(l),
           NEW tok \in Int,
           \A k \in DOMAIN s : s[k] <= tok, \A k \in DOMAIN l : l[k] > tok
    PROVE  /\ s \o l \in Seq(Ids)
           /\ Range(s \o l) = Range(s) \cup Range(l)
           /\ IsInjective(s \o l)
<1>1. /\ s \o l \in Seq(Ids) /\ Len(s \o l) = Len(s) + Len(l)
      /\ \A i \in 1 .. Len(s) + Len(l) :
            (s \o l)[i] = IF i <= Len(s) THEN s[i] ELSE l[i - Len(s)]
    BY ConcatProperties
<1> DEFINE c == s \o l
<1>2. /\ DOMAIN c = 1 .. Len(s) + Len(l)
      /\ DOMAIN s = 1 .. Len(s) /\ DOMAIN l = 1 .. Len(l)
      /\ Len(s) \in Nat /\ Len(l) \in Nat
    BY <1>1
<1>3. ASSUME NEW i \in DOMAIN c
      PROVE  \/ i \in DOMAIN s /\ c[i] = s[i]
             \/ i - Len(s) \in DOMAIN l /\ i > Len(s) /\ c[i] = l[i - Len(s)]
    BY <1>1, <1>2
<1>4. Range(c) = Range(s) \cup Range(l)
    <2>1. Range(c) \subseteq Range(s) \cup Range(l)
        BY <1>3 DEF Range
    <2>2. Range(s) \subseteq Range(c)
        <3>1. \A i \in DOMAIN s : i \in DOMAIN c /\ c[i] = s[i]
            BY <1>1, <1>2
        <3>2. QED
            BY <3>1 DEF Range
    <2>3. Range(l) \subseteq Range(c)
        <3>1. \A j \in DOMAIN l : Len(s) + j \in DOMAIN c /\ c[Len(s) + j] = l[j]
            BY <1>1, <1>2
        <3>2. QED
            BY <3>1 DEF Range
    <2>4. QED
        BY <2>1, <2>2, <2>3
<1>5. IsInjective(c)
    <2> SUFFICES ASSUME NEW i \in DOMAIN c, NEW j \in DOMAIN c, c[i] = c[j]
                 PROVE  i = j
        BY DEF IsInjective
    <2>1. /\ \/ i \in DOMAIN s /\ c[i] = s[i]
             \/ i - Len(s) \in DOMAIN l /\ c[i] = l[i - Len(s)]
          /\ \/ j \in DOMAIN s /\ c[j] = s[j]
             \/ j - Len(s) \in DOMAIN l /\ c[j] = l[j - Len(s)]
          /\ i \in DOMAIN s <=> i <= Len(s)
          /\ j \in DOMAIN s <=> j <= Len(s)
        BY <1>2, <1>3
    <2>2. CASE i \in DOMAIN s /\ j \in DOMAIN s
        BY <2>1, <2>2 DEF IsInjective
    <2>3. CASE i \notin DOMAIN s /\ j \notin DOMAIN s
        <3>1. i - Len(s) = j - Len(s)
            BY <2>1, <2>3 DEF IsInjective
        <3>2. QED
            BY <3>1, <1>2
    <2>4. CASE i \in DOMAIN s /\ j \notin DOMAIN s
        <3>1. i \in DOMAIN s /\ c[i] = s[i]
            BY <1>2, <2>1, <2>4
        <3>2. j - Len(s) \in DOMAIN l /\ c[j] = l[j - Len(s)]
            BY <2>1, <2>4
        <3>3. s[i] \in Ids /\ s[i] <= tok
            BY <3>1
        <3>4. l[j - Len(s)] > tok
            BY <3>2
        <3>5. s[i] = l[j - Len(s)]
            BY <3>1, <3>2
        <3>6. QED
            BY <3>3, <3>4, <3>5, SeparatedByToken
    <2>5. CASE i \notin DOMAIN s /\ j \in DOMAIN s
        <3>1. j \in DOMAIN s /\ c[j] = s[j]
            BY <1>2, <2>1, <2>5
        <3>2. i - Len(s) \in DOMAIN l /\ c[i] = l[i - Len(s)]
            BY <2>1, <2>5
        <3>3. s[j] \in Ids /\ s[j] <= tok
            BY <3>1
        <3>4. l[i - Len(s)] > tok
            BY <3>2
        <3>5. s[j] = l[i - Len(s)]
            BY <3>1, <3>2
        <3>6. QED
            BY <3>3, <3>4, <3>5, SeparatedByToken
    <2>6. QED
        BY <2>2, <2>3, <2>4, <2>5
<1>6. QED
    BY <1>1, <1>4, <1>5

(* The show loop's invariant: while it fetches, what it has listed is a  *)
(* list without repeats of IDs up to the token, holding every template   *)
(* present since the start up to the token; and it only answers "ok"    *)
(* when it leaves the loop.                                               *)
ShowInv ==
    /\ TypeOK
    /\ showPc # "done" => showOut # "ok"
    /\ showPc = "fetching" =>
           /\ stable \subseteq DOMAIN store
           /\ \A k \in DOMAIN listed : listed[k] <= token
           /\ \A id \in stable : id <= token => id \in Range(listed)
           /\ IsInjective(listed)
    /\ ShowListsStableTemplates

(* A step that leaves the show command alone, shrinks stable at most and  *)
(* keeps it within the store while show fetches, keeps ShowInv.           *)
LEMMA ShowFrame ==
    ASSUME ShowInv, TypeOK',
           UNCHANGED <<showPc, showOut, token, listed>>,
           stable' \subseteq stable,
           showPc = "fetching" => stable' \subseteq DOMAIN store'
    PROVE  ShowInv'
BY DEF ShowInv, ShowListsStableTemplates

LEMMA InitTypeOK == Init => TypeOK
<1> SUFFICES ASSUME Init PROVE TypeOK
    OBVIOUS
<1>1. PICK D \in SUBSET Ids : store = [id \in D |-> Base]
    BY DEF Init
<1>2. /\ showPc = "idle" /\ token = 0 /\ listed = <<>> /\ stable = {}
      /\ created = {} /\ ops = 0 /\ creates = 0
    BY DEF Init
<1>3. showIn \in ShowInputs
    <2>1. showIn = [templateID |-> NoID, parentID |-> "", selectors |-> {}]
        BY DEF Init
    <2>2. QED
        BY <2>1 DEF ShowInputs
<1>4. DOMAIN store \subseteq Ids /\ store \in [DOMAIN store -> Templates]
    BY <1>1, BaseTemplate
<1>5. showPc \in {"idle", "fetching", "done"} /\ token \in Ids \cup {0}
    BY <1>2
<1>6. listed \in Seq(Ids)
    BY <1>2
<1>7. stable \subseteq Ids /\ created \subseteq CreateInputs \X Templates
    BY <1>2
<1>8. ops \in 0..MaxOps /\ creates \in 0..MaxCreates
    BY <1>2
<1>9. QED
    BY <1>3, <1>4, <1>5, <1>6, <1>7, <1>8 DEF TypeOK

LEMMA TypeOKStep == TypeOK /\ [Next]_vars => TypeOK'
<1> SUFFICES ASSUME TypeOK, [Next]_vars PROVE TypeOK'
    OBVIOUS
<1>1. ASSUME NEW id \in Ids, OtherCreate(id) PROVE TypeOK'
    <2>1. /\ store' = [j \in DOMAIN store \cup {id} |-> IF j = id THEN Base ELSE store[j]]
          /\ ops < MaxOps /\ ops' = ops + 1
          /\ UNCHANGED <<showIn, showPc, token, listed, stable, created, creates>>
        BY <1>1 DEF OtherCreate
    <2>2. QED
        BY <2>1, BaseTemplate DEF TypeOK
<1>2. ASSUME NEW id \in Ids, OtherDelete(id) PROVE TypeOK'
    <2>1. /\ store' = [j \in DOMAIN store \ {id} |-> store[j]]
          /\ stable' = stable \ {id}
          /\ ops < MaxOps /\ ops' = ops + 1
          /\ UNCHANGED <<showIn, showPc, token, listed, created, creates>>
        BY <1>2 DEF OtherDelete
    <2>2. QED
        BY <2>1 DEF TypeOK
<1>3. ASSUME NEW i \in ShowInputs, ShowStart(i) PROVE TypeOK'
    <2>1. /\ showIn' = i /\ showPc' \in {"fetching", "done"}
          /\ token' = 0 /\ listed' = <<>> /\ stable' = DOMAIN store
          /\ UNCHANGED <<store, created, ops, creates>>
        BY <1>3 DEF ShowStart
    <2>2. QED
        BY <2>1 DEF TypeOK
<1>4. CASE ShowFetchPage
    <2>1. PICK l \in PageLists(ServerPage(token)),
               t \in NextPageTokens(ServerPage(token)) :
                 /\ listed' = listed \o l /\ token' = t
                 /\ showPc' \in {showPc, "done"}
        BY <1>4 DEF ShowFetchPage
    <2>2. UNCHANGED <<store, showIn, stable, created, ops, creates>>
        BY <1>4 DEF ShowFetchPage
    <2>3. ServerPage(token) \subseteq Ids
        BY PageFromStore DEF TypeOK
    <2>4. l \in Seq(Ids) /\ t \in Ids \cup {0}
        BY <2>1, <2>3, PageListsAreSeqs, PageFromStore
    <2>5. QED
        BY <2>1, <2>2, <2>4 DEF TypeOK
<1>5. CASE ShowFetchFail
    <2>1. /\ showPc' = "done" /\ listed' = <<>>
          /\ UNCHANGED <<store, showIn, token, stable, created, ops, creates>>
        BY <1>5 DEF ShowFetchFail
    <2>2. QED
        BY <2>1 DEF TypeOK
<1>6. ASSUME NEW i \in CreateInputs, CreateRun(i) PROVE TypeOK'
    <2>1. creates < MaxCreates /\ creates' = creates + 1
        BY <1>6 DEF CreateRun
    <2>2. UNCHANGED <<showIn, showPc, token, listed, stable, ops>>
        BY <1>6 DEF CreateRun
    <2>3. store' \in [DOMAIN store' -> Templates] /\ DOMAIN store' \subseteq Ids
          /\ created' \subseteq CreateInputs \X Templates
        <3>1. CASE CreateValidate(i) # "ok" \/ ParseConfig(i) # "ok"
            <4>1. UNCHANGED <<store, created>>
                BY <1>6, <3>1 DEF CreateRun
            <4>2. QED
                BY <4>1 DEF TypeOK
        <3>2. CASE CreateValidate(i) = "ok" /\ ParseConfig(i) = "ok"
            <4>1. Template(i) \in Templates
                BY <3>2, ParsedTemplate
            <4>2. ASSUME NEW id \in Ids, CreateTemplates(i, id)
                  PROVE  store' \in [DOMAIN store' -> Templates] /\ DOMAIN store' \subseteq Ids
                         /\ created' \subseteq CreateInputs \X Templates
                <5>1. CASE id \in DOMAIN store
                    <6>1. UNCHANGED <<store, created>>
                        BY <4>2, <5>1 DEF CreateTemplates
                    <6>2. QED
                        BY <6>1 DEF TypeOK
                <5>2. CASE id \notin DOMAIN store
                    <6>1. /\ store' = [j \in DOMAIN store \cup {id} |->
                                          IF j = id THEN Template(i) ELSE store[j]]
                          /\ created' = created \cup {<<i, Template(i)>>}
                        BY <4>2, <5>2 DEF CreateTemplates
                    <6>2. QED
                        BY <6>1, <4>1 DEF TypeOK
                <5>3. QED
                    BY <5>1, <5>2
            <4>3. (IF i.templateID = NoID THEN Ids \ DOMAIN store ELSE {i.templateID})
                      \subseteq Ids
                BY DEF CreateInputs
            <4>4. \/ UNCHANGED <<store, created>>
                  \/ \E id \in Ids : CreateTemplates(i, id)
                BY <1>6, <3>2, <4>3 DEF CreateRun
            <4>5. QED
                BY <4>2, <4>4 DEF TypeOK
        <3>3. QED
            BY <3>1, <3>2
    <2>4. QED
        BY <2>1, <2>2, <2>3 DEF TypeOK
<1>7. CASE UNCHANGED vars
    BY <1>7 DEF vars, TypeOK
<1>8. QED
    BY <1>1, <1>2, <1>3, <1>4, <1>5, <1>6, <1>7 DEF Next

LEMMA InitCreated == Init => CreatedTtlsInRange
BY DEF Init, CreatedTtlsInRange

LEMMA CreatedStep ==
    CreatedTtlsInRange /\ [Next]_vars => CreatedTtlsInRange'
<1> SUFFICES ASSUME CreatedTtlsInRange, [Next]_vars PROVE CreatedTtlsInRange'
    OBVIOUS
<1>1. ASSUME NEW i \in CreateInputs, CreateRun(i) PROVE CreatedTtlsInRange'
    <2>1. CASE CreateValidate(i) # "ok" \/ ParseConfig(i) # "ok"
        BY <1>1, <2>1 DEF CreateRun, CreatedTtlsInRange
    <2>2. CASE CreateValidate(i) = "ok" /\ ParseConfig(i) = "ok"
        <3>1. Template(i).x509 >= 0 /\ Template(i).jwt >= 0
            BY <2>2, ValidatedTtls, TemplateTtls
        <3>2. ASSUME NEW id, CreateTemplates(i, id) PROVE CreatedTtlsInRange'
            BY <3>1, <3>2 DEF CreateTemplates, CreatedTtlsInRange
        <3>3. QED
            BY <1>1, <2>2, <3>2 DEF CreateRun, CreatedTtlsInRange
    <2>3. QED
        BY <2>1, <2>2
<1>2. CASE ~\E i \in CreateInputs : CreateRun(i)
    BY <1>2 DEF Next, vars, OtherCreate, OtherDelete, ShowStart, ShowFetchPage,
                ShowFetchFail, CreatedTtlsInRange
<1>3. QED
    BY <1>1, <1>2

(* One turn of the loop keeps ShowInv: the page lies past the token and  *)
(* is a prefix of what is left, so the list grows without repeats, and an *)
(* empty page means nothing of the store is left past the token.          *)
LEMMA ShowFetchPageKeepsInv ==
    ASSUME ShowInv, TypeOK', ShowFetchPage
    PROVE  ShowInv'
<1> DEFINE P == ServerPage(token)
<1>1. PICK l \in PageLists(P), t \in NextPageTokens(P) :
          /\ listed' = listed \o l /\ token' = t
          /\ IF t = 0 THEN showPc' = "done" /\ showOut' = "ok"
                      ELSE UNCHANGED <<showPc, showOut>>
    BY DEF ShowFetchPage
<1>2. UNCHANGED <<store, stable>> /\ showPc = "fetching"
    BY DEF ShowFetchPage
<1>3. /\ showOut # "ok" /\ stable \subseteq DOMAIN store
      /\ \A k \in DOMAIN listed : listed[k] <= token
      /\ \A id \in stable : id <= token => id \in Range(listed)
      /\ IsInjective(listed) /\ listed \in Seq(Ids)
      /\ token \in Ids \cup {0} /\ DOMAIN store \subseteq Ids
    BY <1>2 DEF ShowInv, TypeOK
<1>4. P \subseteq Ids /\ \A p \in P : p > token
    BY <1>3, PageAfterToken
<1>5. l \in Seq(Ids) /\ Range(l) = P /\ IsInjective(l)
    BY <1>4, PageListOnto
<1>6. \A k \in DOMAIN l : l[k] > token
    BY <1>4, <1>5 DEF Range
<1>7. /\ Range(listed') = Range(listed) \cup P
      /\ IsInjective(listed')
    BY <1>1, <1>3, <1>5, <1>6, AppendAbove
<1>8. /\ t = 0 <=> P = {}
      /\ t # 0 => t \in P /\ \A p \in P : p <= t
    BY <1>4, NextTokenOfPage
<1>9. CASE t = 0
    <2>1. \A id \in DOMAIN store : ~(id > token)
        BY <1>3, <1>8, <1>9, PageNonEmpty
    <2>2. stable \subseteq Range(listed')
        BY <1>3, <1>7, <2>1
    <2>3. showPc' = "done" /\ showOut' = "ok"
        BY <1>1, <1>9
    <2>4. QED
        BY <1>2, <1>7, <2>2, <2>3 DEF ShowInv, ShowListsStableTemplates, Range, IsInjective
<1>10. CASE t # 0
    <2>1. t \in P /\ (\A p \in P : p <= t) /\ t > token
        BY <1>4, <1>8, <1>10
    <2>2. showPc' = "fetching" /\ showOut' = showOut /\ token' = t
        BY <1>1, <1>2, <1>10
    <2>3. \A k \in DOMAIN listed' : listed'[k] <= t
        <3>1. \A x \in Range(listed) : x \in Ids /\ x <= token
            BY <1>3 DEF Range
        <3>2. ASSUME NEW x \in Range(listed') PROVE x <= t
            <4>1. x \in Range(listed) \/ x \in P
                BY <1>7
            <4>2. t \in Ids /\ token \in Int
                BY <1>3, <1>4, <2>1
            <4>3. CASE x \in Range(listed)
                <5>1. x \in Ids /\ x <= token
                    BY <3>1, <4>3
                <5>2. t > token
                    BY <2>1
                <5>3. QED
                    BY <4>2, <5>1, <5>2
            <4>4. CASE x \in P
                BY <2>1, <4>4
            <4>5. QED
                BY <4>1, <4>3, <4>4
        <3>3. QED
            BY <3>2 DEF Range
    <2>4. ASSUME NEW id \in stable, id <= t PROVE id \in Range(listed')
        <3>1. CASE id <= token
            BY <1>3, <1>7, <3>1
        <3>2. CASE ~(id <= token)
            <4>1. id \in DOMAIN store /\ token < id
                BY <1>3, <3>2
            <4>2. id \in P
                BY <1>3, <2>1, <2>4, <4>1, PageIsPrefix
            <4>3. QED
                BY <1>7, <4>2
        <3>3. QED
            BY <3>1, <3>2
    <2>5. QED
        BY <1>2, <1>3, <1>7, <2>2, <2>3, <2>4 DEF ShowInv, ShowListsStableTemplates
<1>11. QED
    BY <1>9, <1>10

LEMMA InitShowInv == Init => ShowInv
<1> SUFFICES ASSUME Init PROVE ShowInv
    OBVIOUS
<1>1. TypeOK
    BY InitTypeOK
<1>2. showPc = "idle" /\ showOut = "none"
    BY DEF Init
<1>3. QED
    BY <1>1, <1>2 DEF ShowInv, ShowListsStableTemplates

LEMMA ShowInvStep == ShowInv /\ [Next]_vars => ShowInv'
<1> SUFFICES ASSUME ShowInv, [Next]_vars PROVE ShowInv'
    OBVIOUS
<1>0. TypeOK /\ TypeOK'
    BY TypeOKStep DEF ShowInv
<1>1. ASSUME NEW id \in Ids, OtherCreate(id) PROVE ShowInv'
    <2>1. /\ DOMAIN store' = DOMAIN store \cup {id}
          /\ UNCHANGED <<showPc, showOut, token, listed, stable>>
        BY <1>1 DEF OtherCreate
    <2>2. QED
        BY <1>0, <2>1, ShowFrame DEF ShowInv
<1>2. ASSUME NEW id \in Ids, OtherDelete(id) PROVE ShowInv'
    <2>1. /\ DOMAIN store' = DOMAIN store \ {id}
          /\ stable' = stable \ {id}
          /\ UNCHANGED <<showPc, showOut, token, listed>>
        BY <1>2 DEF OtherDelete
    <2>2. QED
        BY <1>0, <2>1, ShowFrame DEF ShowInv
<1>3. ASSUME NEW i \in CreateInputs, CreateRun(i) PROVE ShowInv'
    <2>1. UNCHANGED <<showPc, showOut, token, listed, stable>>
        BY <1>3 DEF CreateRun
    <2>2. DOMAIN store \subseteq DOMAIN store'
        <3>1. ASSUME NEW id, CreateTemplates(i, id) PROVE DOMAIN store \subseteq DOMAIN store'
            BY <3>1 DEF CreateTemplates
        <3>2. QED
            BY <1>3, <3>1 DEF CreateRun
    <2>3. QED
        BY <1>0, <2>1, <2>2, ShowFrame DEF ShowInv
<1>4. ASSUME NEW i \in ShowInputs, ShowStart(i) PROVE ShowInv'
    <2>1. /\ showPc' \in {"fetching", "done"}
          /\ showPc' = "fetching" => showOut' = "none"
          /\ showPc' = "done" => showOut' = "invalid"
          /\ token' = 0 /\ listed' = <<>> /\ stable' = DOMAIN store
          /\ store' = store
        BY <1>4 DEF ShowStart
    <2>2. \A id \in stable' : ~(id <= token')
        BY <1>0, <2>1 DEF TypeOK
    <2>3. QED
        BY <1>0, <2>1, <2>2 DEF ShowInv, ShowListsStableTemplates, IsInjective
<1>5. CASE ShowFetchFail
    <2>1. showPc' = "done" /\ showOut' = "error fetching entries"
        BY <1>5 DEF ShowFetchFail
    <2>2. showPc' = "done" /\ showOut' # "ok"
        BY <2>1
    <2>3. QED
        BY <1>0, <2>2 DEF ShowInv, ShowListsStableTemplates
<1>6. CASE ShowFetchPage
    BY <1>0, <1>6, ShowFetchPageKeepsInv
<1>7. CASE UNCHANGED vars
    BY <1>0, <1>7, ShowFrame DEF vars, ShowInv
<1>8. QED
    BY <1>1, <1>2, <1>3, <1>4, <1>5, <1>6, <1>7 DEF Next

(* The server holds only templates whose TTLs fit their int32 fields, and *)
(* the show loop's list and token are IDs, whatever create is given and   *)
(* however the commands and other clients interleave.                      *)
THEOREM TemplateTypeCorrect == Spec => []TypeOK
BY InitTypeOK, TypeOKStep, PTL DEF Spec

(* createCommand.Run stores no template with a negative x509 or JWT TTL,  *)
(* for any flags: validate's sign checks run before BatchCreate.          *)
THEOREM CreatedTtlsNonNegative == Spec => []CreatedTtlsInRange
BY InitCreated, CreatedStep, PTL DEF Spec

LEMMA InitAsGiven == Init => CreatedTtlsAsGiven
BY DEF Init, CreatedTtlsAsGiven

LEMMA AsGivenStep ==
    CreatedTtlsAsGiven /\ [Next]_vars => CreatedTtlsAsGiven'
<1> SUFFICES ASSUME CreatedTtlsAsGiven, [Next]_vars PROVE CreatedTtlsAsGiven'
    OBVIOUS
<1>1. ASSUME NEW i \in CreateInputs, CreateRun(i) PROVE CreatedTtlsAsGiven'
    <2>1. CASE CreateValidate(i) # "ok" \/ ParseConfig(i) # "ok"
        BY <1>1, <2>1 DEF CreateRun, CreatedTtlsAsGiven
    <2>2. CASE CreateValidate(i) = "ok" /\ ParseConfig(i) = "ok"
        <3>1. Template(i).x509 = i.x509 /\ Template(i).jwt = i.jwt
            BY TemplateTtls
        <3>2. ASSUME NEW id, CreateTemplates(i, id) PROVE CreatedTtlsAsGiven'
            BY <3>1, <3>2 DEF CreateTemplates, CreatedTtlsAsGiven
        <3>3. QED
            BY <1>1, <2>2, <3>2 DEF CreateRun, CreatedTtlsAsGiven
    <2>3. QED
        BY <2>1, <2>2
<1>2. CASE ~\E i \in CreateInputs : CreateRun(i)
    BY <1>2 DEF Next, vars, OtherCreate, OtherDelete, ShowStart, ShowFetchPage,
                ShowFetchFail, CreatedTtlsAsGiven
<1>3. QED
    BY <1>1, <1>2

(* createCommand.Run stores every template with the very TTLs its flags   *)
(* give, for any flags and any int32 width: parseConfig's CheckedCast     *)
(* refuses a flag that int32 cannot hold instead of storing it wrapped.   *)
THEOREM CreatedTtlsExact == Spec => []CreatedTtlsAsGiven
BY InitAsGiven, AsGivenStep, PTL DEF Spec

(* template show lists every template present from its start to its     *)
(* "ok", exactly once, for any number of IDs and any page size, however   *)
(* other clients create and delete templates between fetchEntries'        *)
(* pages: the server pages in ID order and the loop follows its tokens.   *)
THEOREM ShowListsEveryStableTemplate == Spec => []ShowListsStableTemplates
<1>1. Spec => []ShowInv
    BY InitShowInv, ShowInvStep, PTL DEF Spec
<1>2. ShowInv => ShowListsStableTemplates
    BY DEF ShowInv
<1>3. QED
    BY <1>1, <1>2, PTL

====
