------------------------------ MODULE Catalogue ------------------------------
(***************************************************************************)
(* Listings and the deals made on them, beside the channel whose admins    *)
(* may list it.  Every handler works in several statements: it reads the   *)
(* listing, checks, and writes what it had read with the fields of its     *)
(* request put in; an admin of the channel may be dismissed, the listing   *)
(* edited or deleted, between any two of them.                             *)
(*                                                                         *)
(* One listing is modelled: ids are never used again, and no operation is  *)
(* about two.  Its prices are one option of one duration; a PATCH treats   *)
(* its status, its categories and its description as it treats the prices. *)
(* The deals are drafts: what becomes of them then is DealSigning's.       *)
(***************************************************************************)
EXTENDS ChannelData, Integers

CONSTANTS
    Requests,    \* requests about the listing
    Prices,      \* prices users ask for, in parts of a nanoton
    PartsPerNanoton, \* what is finer than a nanoton is rounded
    Gas,         \* transactionGasNanoton
    Num, Den     \* comissionMultiplier is Num / Den

ASSUME AmountsAssumption ==
    /\ Prices \subseteq Int /\ Gas \in Nat
    /\ {PartsPerNanoton, Num, Den} \subseteq Nat \ {0} /\ Num >= Den

VARIABLES
    listing,   \* the row of market.listing
    requests,  \* the handlers: where they are, for whom, and what they will write
    deals,     \* market.deal: the deals on the listing
    offers     \* history: the states the listing has been in

listingVars == <<listing, requests, deals, offers>>
vars == <<channelVars, listingVars>>

-----------------------------------------------------------------------------
(* math.Round of n / d, for n that is not negative: a negative price is      *)
(* refused before it is stored, and matches no listing.                      *)
Round(n, d) == (2 * n + d) \div (2 * d)

TONToNanoton(parts) == Round(parts, PartsPerNanoton)

(* Mutant: the gas is taken before the commission is added.                  *)
ComputeEscrowAmountGasFirst(price) == Round((price + Gas) * Num, Den)

ComputeEscrowAmount(price) == Round(price * Num, Den) + Gas

(* The escrow worker's inverse.                                              *)
GetAmountWithoutGasAndCommission(amount) == Round((amount - Gas) * Den, Num)

-----------------------------------------------------------------------------
ValidateListingPrices(parts) == parts >= 0

(* Prices that a listing accepts, as it stores them.                         *)
Nanotons == {TONToNanoton(p) : p \in {p \in Prices : ValidateListingPrices(p)}}

DealPriceMatchesListing(l, nanoton) == l.price = nanoton

Types == {"lessor", "lessee"}
Fields == {"type", "price"}

(* vetted is history: the request that wrote the row has asked whether the   *)
(* owner is an admin, and at that time the owner was.                        *)
Listings == [owner : Users, channel : BOOLEAN, type : Types, price : Nanotons,
             vetted : BOOLEAN]
Drafts == [id : Requests \cup {None}, lessor : Users, lessee : Users,
           channel : BOOLEAN, price : Int, escrow : Nat]
Deals == {d \in Drafts : d.price \in Nanotons}

NewRequest == [pc |-> "start", user |-> None, named |-> {}, row |-> {}]
Done == [NewRequest EXCEPT !.pc = "done"]

Continue(q, r) == requests' = [requests EXCEPT ![q] = r]

(* The row is inserted, or all its fields are replaced.                      *)
Write(row) == listing' = {row} /\ offers' = offers \cup {row}

-----------------------------------------------------------------------------
(* The listings a request can ask for: its prices are valid, and converted.  *)
NewListings(u) ==
    {[owner |-> u, channel |-> c, type |-> t, price |-> TONToNanoton(p),
      vetted |-> t = "lessor" /\ c /\ IsChannelAdmin(u)] :
        c \in BOOLEAN, t \in Types, p \in {p \in Prices : ValidateListingPrices(p)}}

MayList(l) == l.type = "lessor" => l.channel /\ IsChannelAdmin(l.owner)

(* CreateListing: a lessor needs a channel, and a row in channel_admin; ...  *)
CheckListing(q) ==
    /\ "listing" \in scene /\ requests[q].pc = "start"
    /\ offers = {} /\ \A p \in Requests : requests[p].pc # "insert"
    /\ \E u \in Users : \E l \in NewListings(u) :
        /\ MayList(l)
        /\ Continue(q, [pc |-> "insert", user |-> u, named |-> {}, row |-> {l}])
    /\ UNCHANGED <<channelVars, listing, deals, offers>>

(* ... then the row is inserted.                                             *)
InsertListing(q) ==
    /\ requests[q].pc = "insert"
    /\ \E l \in requests[q].row : Write(l)
    /\ Continue(q, Done)
    /\ UNCHANGED <<channelVars, deals>>

-----------------------------------------------------------------------------
(* Only the fields a request names are replaced; the owner and the channel   *)
(* cannot be named.                                                          *)
mergeListingWithUpdate(l, named, req) ==
    [l EXCEPT !.type = IF "type" \in named THEN req.type ELSE @,
              !.price = IF "price" \in named THEN TONToNanoton(req.price) ELSE @,
              !.vetted = FALSE]

(* The handler of PATCH reads the listing and merges the request into it, if *)
(* its prices are valid.                                                     *)
ReadForUpdate(q) ==
    /\ requests[q].pc = "start"
    /\ \E l \in listing, u \in Users, named \in SUBSET Fields \ {{}} :
        \E t \in Types, p \in Prices :
            Continue(q, IF "price" \in named => ValidateListingPrices(p)
                THEN [pc |-> "check", user |-> u, named |-> named,
                      row |-> {mergeListingWithUpdate(l, named, [type |-> t, price |-> p])}]
                ELSE Done)
    /\ UNCHANGED <<channelVars, listing, deals, offers>>

NeedsAdmin(l) == l.type = "lessor" /\ l.channel

(* Mutant: whether an admin is needed is seen from the listing as it was.    *)
CheckUpdateOldType(q) ==
    /\ requests[q].pc = "check"
    /\ \/ \E l \in listing :
            /\ l.owner = requests[q].user
            /\ Continue(q, [requests[q] EXCEPT
                              !.pc = IF NeedsAdmin(l) THEN "admin" ELSE "update"])
       \/ (\A l \in listing : l.owner # requests[q].user) /\ Continue(q, Done)
    /\ UNCHANGED <<channelVars, listing, deals, offers>>

(* The service reads the listing again to see that it is still there and     *)
(* whose it is, ...                                                          *)
CheckUpdate(q) ==
    /\ requests[q].pc = "check"
    /\ \/ \E l \in listing, row \in requests[q].row :
            /\ l.owner = requests[q].user
            /\ Continue(q, [requests[q] EXCEPT
                              !.pc = IF NeedsAdmin(row) THEN "admin" ELSE "update"])
       \/ (\A l \in listing : l.owner # requests[q].user) /\ Continue(q, Done)
    /\ UNCHANGED <<channelVars, listing, deals, offers>>

(* ... asks for an admin if the new listing offers a channel, ...            *)
CheckAdmin(q) ==
    /\ requests[q].pc = "admin"
    /\ Continue(q, IF IsChannelAdmin(requests[q].user)
                   THEN [requests[q] EXCEPT !.pc = "update",
                            !.row = {[row EXCEPT !.vetted = IsChannelAdmin(row.owner)] :
                                        row \in @}]
                   ELSE Done)
    /\ UNCHANGED <<channelVars, listing, deals, offers>>

(* Mutant: a listing that is not there is inserted.                          *)
UpsertListing(q) ==
    /\ requests[q].pc = "update"
    /\ \E row \in requests[q].row : Write(row)
    /\ Continue(q, Done)
    /\ UNCHANGED <<channelVars, deals>>

(* ... and replaces all its fields by those of the first reading.            *)
UpdateListing(q) ==
    /\ requests[q].pc = "update"
    /\ \/ listing # {} /\ \E row \in requests[q].row : Write(row)
       \/ listing = {} /\ UNCHANGED <<listing, offers>>
    /\ Continue(q, Done)
    /\ UNCHANGED <<channelVars, deals>>

(* DeleteListing by the owner; a listing with deals is kept by their key.    *)
DeleteListing(q) ==
    /\ requests[q].pc = "start"
    /\ listing # {} /\ deals = {} /\ listing' = {}
    /\ Continue(q, Done)
    /\ UNCHANGED <<channelVars, deals, offers>>

-----------------------------------------------------------------------------
(* Mutant: whoever answers a listing is its lessee.                          *)
LesseeApplies(l, u) == [lessor |-> l.owner, lessee |-> u]

resolveLessorLessee(l, u) ==
    IF l.type = "lessor" THEN [lessor |-> l.owner, lessee |-> u]
    ELSE [lessor |-> u, lessee |-> l.owner]

(* resolveDealChannelID: the channels a deal may name.                       *)
resolveDealChannelID(l) == IF l.type = "lessor" THEN {l.channel} ELSE {TRUE}

(* Price and escrow of a deal are set together, when it is made and when it  *)
(* is amended.                                                               *)
Priced(d, nanoton) ==
    [d EXCEPT !.price = nanoton, !.escrow = ComputeEscrowAmount(nanoton)]

(* buildDealFromCreateRequest: the deals a user can make on a listing.       *)
DealsOn(l, u, id) ==
    {Priced([id |-> id, lessor |-> resolveLessorLessee(l, u).lessor,
             lessee |-> resolveLessorLessee(l, u).lessee, channel |-> c,
             price |-> 0, escrow |-> 0], TONToNanoton(p)) :
        c \in resolveDealChannelID(l),
        p \in {p \in Prices : DealPriceMatchesListing(l, TONToNanoton(p))}}

(* The handler of CreateDeal reads the listing, checks the request against   *)
(* it, ...                                                                   *)
ReadForDeal(q) ==
    /\ "deal" \in scene /\ requests[q].pc = "start"
    /\ \E l \in listing : \E u \in Users \ {l.owner} : \E d \in DealsOn(l, u, q) :
        Continue(q, [pc |-> "deal", user |-> u, named |-> {}, row |-> {d}])
    /\ UNCHANGED <<channelVars, listing, deals, offers>>

(* ... and the deal is inserted, if the listing is still there.              *)
InsertDeal(q) ==
    /\ requests[q].pc = "deal"
    /\ deals' = IF listing # {} THEN deals \cup requests[q].row ELSE deals
    /\ Continue(q, Done)
    /\ UNCHANGED <<channelVars, listing, offers>>

(* applyUpdateDealDraftRequest; without a new price the one read is kept.    *)
applyUpdateDealDraftRequest(d, named, parts) ==
    [d EXCEPT !.price = IF "price" \in named THEN TONToNanoton(parts) ELSE @]

(* The handler of a draft's PATCH reads the deal and merges the request into *)
(* it.  Who may do so is DealSigning's subject.                              *)
ReadDraft(q) ==
    /\ requests[q].pc = "start"
    /\ \E d \in deals, named \in {{}, {"price"}}, p \in Prices :
        Continue(q, [pc |-> "match", user |-> None, named |-> named,
                     row |-> {applyUpdateDealDraftRequest(d, named, p)}])
    /\ UNCHANGED <<channelVars, listing, deals, offers>>

(* validateDealPriceMatchesListing reads the listing, for a new price only.  *)
MatchDraft(q) ==
    /\ requests[q].pc = "match"
    /\ Continue(q, IF "price" \in requests[q].named =>
                        \E l \in listing, d \in requests[q].row :
                            DealPriceMatchesListing(l, d.price)
                   THEN [requests[q] EXCEPT !.pc = "draft"] ELSE Done)
    /\ UNCHANGED <<channelVars, listing, deals, offers>>

(* UpdateDealDraft writes the price with its escrow, and no other field of   *)
(* those modelled here.                                                      *)
UpdateDealDraft(q) ==
    /\ requests[q].pc = "draft"
    /\ \E new \in requests[q].row :
        deals' = {IF d.id = new.id THEN Priced(d, new.price) ELSE d : d \in deals}
    /\ Continue(q, Done)
    /\ UNCHANGED <<channelVars, listing, offers>>

-----------------------------------------------------------------------------
(* There may be a listing from before, such as CreateListing makes, and a    *)
(* deal on it.                                                               *)
Init ==
    /\ ChannelInit
    /\ \/ listing = {} /\ deals = {}
       \/ /\ "listing" \in scene
          /\ \E o \in Users : \E l \in NewListings(o) :
                /\ MayList(l) /\ listing = {l}
                /\ \/ deals = {}
                   \/ /\ "deal" \in scene
                      /\ \E u \in Users \ {o} : \E d \in DealsOn(l, u, None) : deals = {d}
    /\ offers = listing
    /\ requests = [q \in Requests |-> NewRequest]

Request(q) ==
    \/ CheckListing(q) \/ InsertListing(q)
    \/ ReadForUpdate(q) \/ CheckUpdate(q) \/ CheckAdmin(q) \/ UpdateListing(q)
    \/ DeleteListing(q)
    \/ ReadForDeal(q) \/ InsertDeal(q)
    \/ ReadDraft(q) \/ MatchDraft(q) \/ UpdateDealDraft(q)

Next ==
    \/ ChannelNext /\ UNCHANGED listingVars
    \/ \E q \in Requests : Request(q)

Spec == Init /\ [][Next]_vars

FairSpec == Spec /\ ChannelFairness

-----------------------------------------------------------------------------
Handlers ==
    [pc : {"start", "insert", "check", "admin", "update", "deal", "match", "draft",
           "done"},
     user : Users \cup {None}, named : SUBSET Fields, row : SUBSET (Listings \cup Drafts)]

TypeOK ==
    /\ ChannelTypeOK
    /\ listing \subseteq Listings /\ offers \subseteq Listings /\ Cardinality(listing) <= 1
    /\ deals \subseteq Deals /\ requests \in [Requests -> Handlers]

(* The user who offers a channel was its admin when the offer was made or    *)
(* last changed: the request that wrote the row, which may have read it long *)
(* before, found the owner among the admins when it asked, whatever the type *)
(* was before, however requests cross and the admins are synced meanwhile.   *)
ListedByAdmin == \A l \in listing : NeedsAdmin(l) => l.vetted

(* A listing keeps its owner and its channel, and once deleted it does not   *)
(* come back, whatever requests read it before.                              *)
OwnerAndChannelKept ==
    [][/\ \A l \in listing, m \in listing' : l.owner = m.owner /\ l.channel = m.channel
       /\ (listing = {} /\ offers # {}) => listing' = {}]_vars

AsOffered(d) ==
    /\ d.lessor # d.lessee /\ \E o \in offers : d.price = o.price
    /\ \E o \in offers :
        \/ o.type = "lessor" /\ d.lessor = o.owner /\ d.channel = o.channel
        \/ o.type = "lessee" /\ d.lessee = o.owner /\ d.channel

(* The sides and the channel of a deal come from one state the listing was   *)
(* in, and its price is one the listing has asked for, however the listing   *)
(* and the draft are edited while the deal is being made or amended.         *)
DealAsOffered == \A d \in deals : AsOffered(d)

(* The escrow covers price and gas, and what is paid out of it is the price  *)
(* to the nanoton, though both conversions round and drafts are amended by   *)
(* requests that cross.                                                      *)
PayoutIsPrice ==
    \A d \in deals :
        /\ GetAmountWithoutGasAndCommission(d.escrow) = d.price
        /\ d.escrow >= d.price + Gas

-----------------------------------------------------------------------------
(* The inductive invariant behind the theorems of CatalogueProofs: what the  *)
(* rows satisfy, and what each handler carries to its next statement.        *)

Listable(l) == NeedsAdmin(l) => l.vetted

SameListing(l, m) == l.owner = m.owner /\ l.channel = m.channel

SoundDeal(d) ==
    d \in Deals /\ d.escrow = ComputeEscrowAmount(d.price) /\ AsOffered(d)

InFlight(q) ==
    LET r == requests[q] IN
    /\ r.pc = "insert" =>
        /\ offers = {} /\ r.row \subseteq Listings /\ \A l \in r.row : Listable(l)
        /\ \A p \in Requests : requests[p].pc = "insert" => p = q
    /\ r.pc \in {"check", "admin", "update"} =>
        /\ offers # {} /\ r.row \subseteq Listings
        /\ \A l \in r.row, o \in offers : SameListing(l, o)
    /\ r.pc \in {"check", "match"} => \A x, y \in r.row : x = y
    /\ r.pc = "admin" => \A l \in r.row : l.owner = r.user
    /\ r.pc = "update" => \A l \in r.row : Listable(l)
    /\ r.pc = "deal" => \A d \in r.row : SoundDeal(d)
    /\ r.pc \in {"match", "draft"} => r.row \subseteq Drafts
    /\ (r.pc = "draft" \/ (r.pc = "match" /\ "price" \notin r.named)) =>
        \A d \in r.row : \E o \in offers : d.price = o.price

CatalogueInv ==
    /\ requests \in [Requests -> Handlers]
    /\ listing \subseteq offers /\ offers \subseteq Listings
    /\ \A l \in offers : Listable(l)
    /\ \A l, m \in offers : SameListing(l, m)
    /\ \A d \in deals : SoundDeal(d)
    /\ \A q \in Requests : InFlight(q)
=============================================================================
