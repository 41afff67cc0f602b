----------------------------- MODULE TemplateCLI -----------------------------
(***************************************************************************)
(* The `spire-server template show` and `template create` commands         *)
(* (src/cmd/spire-server/cli/template/show.go 1-175, create.go, util.go)   *)
(* against the server's SPIFFE ID template store, which other clients      *)
(* change at the same time.                                                *)
(*                                                                         *)
(* show pages through ListSPIFFEIDTemplates until the server answers an    *)
(* empty NextPageToken; each page is one RPC, so other clients' writes     *)
(* interleave between pages.  create validates its flags, builds one       *)
(* template and sends it with BatchCreateSPIFFEIDTemplate.  The server is  *)
(* the environment: template IDs are ordered, a page is the PageSize       *)
(* smallest IDs after the token, and the token is the page's last ID,      *)
(* empty after an empty page.                                              *)
(***************************************************************************)
EXTENDS Integers, Sequences, FiniteSets

CONSTANTS
    Ids,       \* template IDs, ordered (positive integers)
    NoID,      \* an empty -templateID flag
    Sels,      \* well-formed selectors
    BadSel,    \* a selector ParseSelector rejects
    TtlFlags,  \* values of the integer TTL flags
    TtlHalf,   \* 2^31: half the range of the template's int32 TTL fields
    PageSize,  \* listEntriesRequestPageSize (500)
    MaxOps,    \* bound on other clients' writes
    MaxCreates \* bound on create invocations

ASSUME TemplateConstAssumption ==
    /\ Ids \subseteq Nat \ {0} /\ NoID \notin Ids /\ BadSel \notin Sels
    /\ IsFiniteSet(Ids)
    /\ TtlFlags \subseteq Int /\ TtlHalf \in Nat \ {0}
    /\ PageSize \in Nat \ {0} /\ MaxOps \in Nat /\ MaxCreates \in Nat

VARIABLES
    store,     \* the server's templates: a function from their IDs
    showIn,    \* the show command's flags
    showPc,    \* "idle", "fetching" (the pagination loop) or "done"
    token,     \* pageToken (0 is "")
    listed,    \* listResp.Templates: the IDs show has collected, in order
    stable,    \* the templates present since show started (ghost)
    showOut,   \* what show returned
    created,   \* <<flags, template>> for each template create stored (ghost)
    createOut, \* what the latest create returned
    ops,       \* other clients' writes so far
    creates    \* create invocations so far

vars == <<store, showIn, showPc, token, listed, stable, showOut, created,
          createOut, ops, creates>>

Int32 == -TtlHalf .. TtlHalf - 1
Templates == [sels : SUBSET Sels, x509 : Int32, jwt : Int32]
(* What other clients store.                                              *)
Base == [sels |-> Sels, x509 |-> 0, jwt |-> 0]

ShowInputs == [templateID : Ids \cup {NoID}, parentID : {"", "p"},
               selectors : SUBSET Sels]
CreateInputs == [templateID : Ids \cup {NoID}, parentID : {"", "bad", "good"},
                 spiffeID : {"", "t"}, selectors : SUBSET (Sels \cup {BadSel}),
                 x509 : TtlFlags, jwt : TtlFlags]

Init ==
    /\ store \in {[id \in D |-> Base] : D \in SUBSET Ids}
    /\ showIn = [templateID |-> NoID, parentID |-> "", selectors |-> {}]
    /\ showPc = "idle"
    /\ token = 0
    /\ listed = <<>>
    /\ stable = {}
    /\ showOut = "none"
    /\ created = {}
    /\ createOut = "none"
    /\ ops = 0
    /\ creates = 0

(* Other clients create and delete templates (not code of this command).  *)
OtherCreate(id) ==
    /\ ops < MaxOps /\ id \notin DOMAIN store
    /\ store' = [j \in DOMAIN store \cup {id} |-> IF j = id THEN Base ELSE store[j]]
    /\ ops' = ops + 1
    /\ UNCHANGED <<showIn, showPc, token, listed, stable, showOut, created,
                   createOut, creates>>
OtherDelete(id) ==
    /\ ops < MaxOps /\ id \in DOMAIN store
    /\ store' = [j \in DOMAIN store \ {id} |-> store[j]]
    /\ stable' = stable \ {id}
    /\ ops' = ops + 1
    /\ UNCHANGED <<showIn, showPc, token, listed, showOut, created,
                   createOut, creates>>

-----------------------------------------------------------------------------
(* showCommand.validate: -templateID "can't be combined with others", but  *)
(* only -parentID and -selector are looked at.                             *)
ShowValidate(i) ==
    i.templateID # NoID => i.parentID = "" /\ i.selectors = {}

(* showCommand.Run up to the first RPC: validate, then start the loop.     *)
ShowStart(i) ==
    /\ showPc = "idle"
    /\ showIn' = i
    /\ IF ShowValidate(i)
         THEN /\ showPc' = "fetching" /\ showOut' = "none"
         ELSE /\ showPc' = "done" /\ showOut' = "invalid"
    /\ token' = 0 /\ listed' = <<>>
    /\ stable' = DOMAIN store
    /\ UNCHANGED <<store, created, createOut, ops, creates>>

(* The server's answer to ListSPIFFEIDTemplates(PageToken = tok): the    *)
(* PageSize smallest IDs after the token.                                 *)
ServerPage(tok) ==
    LET after == {id \in DOMAIN store : id > tok}
    IN  {id \in after : Cardinality({j \in after : j < id}) < PageSize}
(* The page's templates as a list, in an order the command does not rely on. *)
PageLists(page) ==
    {l \in [1..Cardinality(page) -> page] :
        \A j, k \in 1..Cardinality(page) : l[j] = l[k] => j = k}
(* The NextPageToken that comes with the page: its last ID, or "" after   *)
(* an empty page.                                                          *)
NextPageTokens(page) ==
    IF page = {} THEN {0} ELSE {t \in page : \A id \in page : id <= t}

(* Mutant: the loop leaves after its first page.                          *)
ShowFetchPageOnce ==
    /\ showPc = "fetching"
    /\ \E l \in PageLists(ServerPage(token)), t \in NextPageTokens(ServerPage(token)) :
          /\ listed' = listed \o l
          /\ token' = t
    /\ showPc' = "done" /\ showOut' = "ok"
    /\ UNCHANGED <<store, showIn, stable, created, createOut, ops, creates>>

(* One turn of fetchEntries' loop: append the page, take the next token,   *)
(* leave when it is empty; then Run prints the list.                      *)
ShowFetchPage ==
    /\ showPc = "fetching"
    /\ \E l \in PageLists(ServerPage(token)), t \in NextPageTokens(ServerPage(token)) :
          /\ listed' = listed \o l
          /\ token' = t
          /\ IF t = 0
               THEN showPc' = "done" /\ showOut' = "ok"
               ELSE UNCHANGED <<showPc, showOut>>
    /\ UNCHANGED <<store, showIn, stable, created, createOut, ops, creates>>

(* A failed page: fetchEntries returns nil and the error.                 *)
ShowFetchFail ==
    /\ showPc = "fetching"
    /\ showPc' = "done" /\ showOut' = "error fetching entries"
    /\ listed' = <<>>
    /\ UNCHANGED <<store, showIn, token, stable, created, createOut, ops, creates>>

-----------------------------------------------------------------------------
(* Mutant: validate without the sign checks of the two TTL flags.         *)
CreateValidateNoTtlSign(i) ==
    IF i.selectors = {} /\ i.spiffeID = "" THEN "at least one selector is required"
    ELSE IF i.parentID = "" THEN "a parent ID is required"
    ELSE IF i.spiffeID = "" THEN "a SPIFFE ID is required"
    ELSE "ok"

(* createCommand.validate: the first failing check, in code order.  The   *)
(* c.path branch is left out: no flag sets c.path.                         *)
CreateValidate(i) ==
    IF i.selectors = {} /\ i.spiffeID = "" THEN "at least one selector is required"
    ELSE IF i.parentID = "" THEN "a parent ID is required"
    ELSE IF i.spiffeID = "" THEN "a SPIFFE ID is required"
    ELSE IF i.x509 < 0 THEN "a positive x509-SVID TTL is required"
    ELSE IF i.jwt < 0 THEN "a positive JWT-SVID TTL is required"
    ELSE "ok"

(* idStringToProto: spiffeid.FromString rejects the parent ID.             *)
IdStringToProtoFails(id) == id = "bad"

(* Mutant: a plain int32(v) conversion, which wraps modulo 2^32.          *)
Int32Wrap(v) == [ok |-> TRUE, val |-> ((v + TtlHalf) % (2 * TtlHalf)) - TtlHalf]

(* util.CheckedCast[int32]: the value itself when it fits int32, else an  *)
(* error (the value is then discarded).                                    *)
CheckedCast(v) == [ok |-> v \in Int32, val |-> v]

(* parseConfig: idStringToProto on the parent, the int32 casts of the two  *)
(* TTLs, ParseSelector on each selector; then the one template.           *)
ParseConfig(i) ==
    IF IdStringToProtoFails(i.parentID) THEN "spiffeid.FromString"
    ELSE IF ~CheckedCast(i.x509).ok THEN "invalid value for X509 SVID TTL"
    ELSE IF ~CheckedCast(i.jwt).ok THEN "invalid value for JWT SVID TTL"
    ELSE IF BadSel \in i.selectors THEN "ParseSelector"
    ELSE "ok"
Template(i) == [sels |-> i.selectors, x509 |-> CheckedCast(i.x509).val,
                jwt |-> CheckedCast(i.jwt).val]

(* createTemplates and prettyPrintCreate: the server's one result, under  *)
(* ID id; a failed result, here an ID already taken, makes the command    *)
(* fail with "failed to create one or more entries".                       *)
CreateTemplates(i, id) ==
    IF id \in DOMAIN store
      THEN createOut' = "failed" /\ UNCHANGED <<store, created>>
      ELSE /\ store' = [j \in DOMAIN store \cup {id} |->
                            IF j = id THEN Template(i) ELSE store[j]]
           /\ created' = created \cup {<<i, Template(i)>>}
           /\ createOut' = "ok"

(* createCommand.Run: validate, parseConfig, then createTemplates; the    *)
(* server stores the template under its -templateID or a fresh ID, or     *)
(* answers a failed result that prettyPrintCreate turns into an error.    *)
CreateRun(i) ==
    /\ creates < MaxCreates
    /\ creates' = creates + 1
    /\ IF CreateValidate(i) # "ok" \/ ParseConfig(i) # "ok"
         THEN /\ createOut' = "invalid" /\ UNCHANGED <<store, created>>
         ELSE \/ /\ createOut' = "rpc error" /\ UNCHANGED <<store, created>>
              \/ \E id \in IF i.templateID = NoID THEN Ids \ DOMAIN store
                                                  ELSE {i.templateID} :
                    CreateTemplates(i, id)
              \/ /\ i.templateID = NoID /\ Ids \subseteq DOMAIN store
                 /\ createOut' = "failed" /\ UNCHANGED <<store, created>>
    /\ UNCHANGED <<showIn, showPc, token, listed, stable, showOut, ops>>

Next ==
    \/ \E id \in Ids : OtherCreate(id) \/ OtherDelete(id)
    \/ \E i \in ShowInputs : ShowStart(i)
    \/ ShowFetchPage
    \/ ShowFetchFail
    \/ \E i \in CreateInputs : CreateRun(i)

Spec == Init /\ [][Next]_vars

-----------------------------------------------------------------------------
(* Every variable has its type; the server's templates have TTLs that    *)
(* fit their int32 fields.                                                 *)
TypeOK ==
    /\ DOMAIN store \subseteq Ids /\ store \in [DOMAIN store -> Templates]
    /\ showIn \in ShowInputs
    /\ showPc \in {"idle", "fetching", "done"}
    /\ token \in Ids \cup {0}
    /\ listed \in Seq(Ids)
    /\ stable \subseteq Ids
    /\ created \subseteq CreateInputs \X Templates
    /\ ops \in 0..MaxOps /\ creates \in 0..MaxCreates

(* template show lists every template that existed throughout its          *)
(* pagination loop, once, however other clients create and delete          *)
(* templates between its pages.                                            *)
ShowListsStableTemplates ==
    showOut = "ok" =>
        /\ stable \subseteq {listed[k] : k \in DOMAIN listed}
        /\ \A j, k \in DOMAIN listed : listed[j] = listed[k] => j = k

(* Every template create stores has TTLs of zero or more that fit the      *)
(* template's int32 fields, whichever flags it was given.                 *)
CreatedTtlsInRange ==
    \A c \in created : c[2].x509 >= 0 /\ c[2].jwt >= 0

(* create stores a template with exactly the TTLs its -x509SVIDTTL and    *)
(* -jwtSVIDTTL flags give, or refuses it: parseConfig's conversion of the *)
(* Go int flags to the int32 fields never hands the server an altered    *)
(* TTL, however large the flag.                                            *)
CreatedTtlsAsGiven ==
    \A c \in created : c[2].x509 = c[1].x509 /\ c[2].jwt = c[1].jwt

(* show's -templateID flag "can't be combined with others": it shows the  *)
(* records with that ID only.                                              *)
ShowRespectsTemplateID ==
    showOut = "ok" /\ showIn.templateID # NoID =>
        \A k \in DOMAIN listed : listed[k] = showIn.templateID

====
