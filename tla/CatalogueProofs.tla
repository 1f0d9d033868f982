--------------------------- MODULE CatalogueProofs ---------------------------
(***************************************************************************)
(* Theorems about Catalogue, for every set of users, requests and prices,  *)
(* every commission of zero or more, and every fault.                      *)
(***************************************************************************)
EXTENDS Catalogue, TLAPS

-----------------------------------------------------------------------------
(* The arithmetic of amounts.                                                *)

(* Round is the integer that math.Round gives: the multiple of d nearest to  *)
(* n, the upper one of two.                                                  *)
LEMMA RoundBounds ==
    ASSUME NEW n \in Int, NEW d \in Nat \ {0}
    PROVE  /\ Round(n, d) \in Int
           /\ 2 * (d * Round(n, d)) <= 2 * n + d
           /\ 2 * n + d < 2 * (d * Round(n, d)) + 2 * d
<1> DEFINE a == 2 * n + d
           b == 2 * d
<1>1. a \in Int /\ b \in Int /\ b > 0
  OBVIOUS
<1>2. /\ a \div b \in Int
      /\ b * (a \div b) <= a
      /\ a < b * (a \div b) + b
  <2>1. a = b * (a \div b) + (a % b) /\ a % b \in 0..(b - 1) /\ a \div b \in Int
    BY <1>1
  <2>2. QED
    BY <1>1, <2>1
<1>3. b * (a \div b) = 2 * (d * (a \div b))
  BY <1>2
<1>4. QED
  BY <1>2, <1>3 DEF Round

(* An integer between the same bounds is that integer.                       *)
LEMMA RoundUnique ==
    ASSUME NEW n \in Int, NEW d \in Nat \ {0}, NEW r \in Int,
           2 * (d * r) <= 2 * n + d, 2 * n + d < 2 * (d * r) + 2 * d
    PROVE  Round(n, d) = r
<1> DEFINE s == Round(n, d)
<1>1. s \in Int /\ 2 * (d * s) <= 2 * n + d /\ 2 * n + d < 2 * (d * s) + 2 * d
  BY RoundBounds
<1>2. d * s < d * r + d /\ d * r < d * s + d
  <2>1. d * s \in Int /\ d * r \in Int
    BY <1>1
  <2>2. QED
    BY <1>1, <2>1
<1>3. d * (s - r) < d * 1 /\ d * (r - s) < d * 1
  BY <1>1, <1>2
<1>4. s - r < 1 /\ r - s < 1
  <2>1. ASSUME NEW x \in Int, d * x < d * 1 PROVE x < 1
    BY <2>1, Z3
  <2>2. QED
    BY <1>1, <1>3, <2>1
<1>5. QED
  BY <1>1, <1>4

(* What is converted from a price that is not negative is not negative.      *)
LEMMA RoundNat ==
    ASSUME NEW n \in Nat, NEW d \in Nat \ {0}
    PROVE  Round(n, d) \in Nat
<1>1. Round(n, d) \in Int /\ 2 * n + d < 2 * (d * Round(n, d)) + 2 * d
  BY RoundBounds
<1>2. d * (0 - 1) < d * Round(n, d)
  <2>1. d * Round(n, d) \in Int
    BY <1>1
  <2>2. QED
    BY <1>1, <2>1
<1>3. ASSUME NEW x \in Int, d * (0 - 1) < d * x PROVE 0 - 1 < x
  BY <1>3, Z3
<1>4. QED
  BY <1>1, <1>2, <1>3

(* With a commission of zero or more the payout of the escrow of a price is  *)
(* that price, and the escrow covers price and gas: the second division      *)
(* undoes the first multiplication, for the error of rounding, at most a     *)
(* half, does not grow when it is divided by the commission.                 *)
LEMMA PayoutOfEscrow ==
    ASSUME NEW p \in Nat
    PROVE  /\ GetAmountWithoutGasAndCommission(ComputeEscrowAmount(p)) = p
           /\ ComputeEscrowAmount(p) \in Nat
           /\ ComputeEscrowAmount(p) >= p + Gas
<1> DEFINE e == Round(p * Num, Den)
<1>1. Num \in Nat \ {0} /\ Den \in Nat \ {0} /\ Num >= Den /\ Gas \in Nat
  BY AmountsAssumption
<1>2. p * Num \in Nat
  BY <1>1
<1>3. /\ e \in Nat
      /\ 2 * (Den * e) <= 2 * (p * Num) + Den
      /\ 2 * (p * Num) + Den < 2 * (Den * e) + 2 * Den
  BY <1>1, <1>2, RoundBounds, RoundNat
<1> HIDE DEF e
<1>4. e >= p
  <2>1. Den * p <= p * Num
    BY <1>1, Z3
  <2>2. Den * p < Den * e + Den
    <3>1. Den * e \in Int /\ Den * p \in Int
      BY <1>1, <1>3
    <3>2. ASSUME NEW x \in Int, NEW y \in Int, NEW z \in Int, NEW d \in Nat,
                 y <= z, 2 * z + d < 2 * x + 2 * d
          PROVE  y < x + d
      BY <3>2
    <3>3. QED
      BY <1>1, <1>2, <1>3, <2>1, <3>1, <3>2
  <2>3. Den * (p - e) < Den * 1
    BY <1>1, <1>3, <2>2
  <2>4. ASSUME NEW x \in Int, Den * x < Den * 1 PROVE x < 1
    BY <1>1, <2>4, Z3
  <2>5. QED
    BY <1>3, <2>3, <2>4
<1>5. Round(e * Den, Num) = p
  <2>1. e * Den = Den * e /\ Num * p = p * Num /\ e * Den \in Int /\ Num * p \in Int
    BY <1>1, <1>3
  <2>2. CASE Num > Den
    <3>1. 2 * (Num * p) <= 2 * (e * Den) + Num
      BY <1>1, <1>2, <1>3, <2>1, <2>2
    <3>2. 2 * (e * Den) + Num < 2 * (Num * p) + 2 * Num
      BY <1>1, <1>2, <1>3, <2>1, <2>2
    <3>3. QED
      BY <1>1, <2>1, <3>1, <3>2, RoundUnique
  <2>3. CASE Num = Den
    <3>1. e = p
      <4>1. 2 * (Den * p) <= 2 * (p * Num) + Den
        BY <1>1, <1>2, <2>1, <2>3
      <4>2. 2 * (p * Num) + Den < 2 * (Den * p) + 2 * Den
        BY <1>1, <1>2, <2>1, <2>3
      <4>3. QED
        BY <1>1, <1>2, <4>1, <4>2, RoundUnique DEF e
    <3>2. 2 * (Num * p) <= 2 * (e * Den) + Num
      BY <1>1, <2>1, <2>3, <3>1
    <3>3. 2 * (e * Den) + Num < 2 * (Num * p) + 2 * Num
      BY <1>1, <2>1, <2>3, <3>1
    <3>4. QED
      BY <1>1, <2>1, <3>2, <3>3, RoundUnique
  <2>4. QED
    BY <1>1, <2>2, <2>3
<1>6. ComputeEscrowAmount(p) = e + Gas
  BY DEF ComputeEscrowAmount, e
<1>7. GetAmountWithoutGasAndCommission(e + Gas) = Round(e * Den, Num)
  <2>1. (e + Gas) - Gas = e
    BY <1>1, <1>3
  <2>2. GetAmountWithoutGasAndCommission(e + Gas) = Round(((e + Gas) - Gas) * Den, Num)
    BY DEF GetAmountWithoutGasAndCommission
  <2>3. QED
    BY <2>1, <2>2
<1>8. QED
  BY <1>1, <1>3, <1>4, <1>5, <1>6, <1>7

LEMMA NanotonsNat == Nanotons \subseteq Nat
<1>1. SUFFICES ASSUME NEW p \in Prices, p >= 0 PROVE Round(p, PartsPerNanoton) \in Nat
  BY DEF Nanotons, TONToNanoton, ValidateListingPrices
<1>2. p \in Nat /\ PartsPerNanoton \in Nat \ {0}
  BY <1>1, AmountsAssumption
<1>3. QED
  BY <1>2, RoundNat

LEMMA TONToNanotonInt == ASSUME NEW p \in Prices PROVE TONToNanoton(p) \in Int
<1>1. p \in Int /\ PartsPerNanoton \in Nat \ {0}
  BY AmountsAssumption
<1>2. QED
  BY <1>1, RoundBounds DEF TONToNanoton

-----------------------------------------------------------------------------
(* Initially, and whatever the channel does.                                 *)
LEMMA NewListingsTyped ==
    ASSUME NEW u \in Users, NEW l \in NewListings(u)
    PROVE  l \in Listings /\ l.owner = u
<1> DEFINE v(c, t) == t = "lessor" /\ c /\ IsChannelAdmin(u)
           ps == {p \in Prices : ValidateListingPrices(p)}
<1>1. PICK c \in BOOLEAN, t \in Types, p \in ps :
        l = [owner |-> u, channel |-> c, type |-> t, price |-> TONToNanoton(p),
             vetted |-> v(c, t)]
  BY DEF NewListings
<1>2. v(c, t) \in BOOLEAN
  OBVIOUS
<1>3. TONToNanoton(p) \in Nanotons
  BY DEF Nanotons
<1> HIDE DEF v
<1>4. QED
  BY <1>1, <1>2, <1>3 DEF Listings

LEMMA MayListListable ==
    ASSUME NEW u \in Users, NEW l \in NewListings(u), MayList(l)
    PROVE  Listable(l)
  BY DEF MayList, NewListings, Listable, NeedsAdmin, IsChannelAdmin

(* A deal made on a listing that was offered is a sound one.                 *)
LEMMA DealsOnSound ==
    ASSUME NEW l \in Listings, l \in offers, NEW u \in Users \ {l.owner},
           NEW id \in Requests \cup {None}, NEW d \in DealsOn(l, u, id)
    PROVE  SoundDeal(d)
<1>1. PICK c \in resolveDealChannelID(l), p \in Prices :
        /\ DealPriceMatchesListing(l, TONToNanoton(p))
        /\ d = Priced([id |-> id, lessor |-> resolveLessorLessee(l, u).lessor,
                       lessee |-> resolveLessorLessee(l, u).lessee, channel |-> c,
                       price |-> 0, escrow |-> 0], TONToNanoton(p))
  BY DEF DealsOn
<1>2. TONToNanoton(p) = l.price /\ l.price \in Nanotons /\ l.price \in Nat
  BY <1>1, NanotonsNat DEF DealPriceMatchesListing, Listings
<1>3. d = [id |-> id, lessor |-> resolveLessorLessee(l, u).lessor,
           lessee |-> resolveLessorLessee(l, u).lessee, channel |-> c,
           price |-> l.price, escrow |-> ComputeEscrowAmount(l.price)]
  BY <1>1, <1>2 DEF Priced
<1>4. ComputeEscrowAmount(l.price) \in Nat
  BY <1>2, PayoutOfEscrow
<1>5. /\ l.owner \in Users /\ l.type \in {"lessor", "lessee"} /\ l.channel \in BOOLEAN
  BY DEF Listings, Types
<1>6. CASE l.type = "lessor"
  <2>1. d.lessor = l.owner /\ d.lessee = u /\ d.channel = l.channel
    BY <1>1, <1>3, <1>6 DEF resolveLessorLessee, resolveDealChannelID
  <2>2. QED
    BY <1>2, <1>3, <1>4, <1>5, <1>6, <2>1 DEF SoundDeal, AsOffered, Deals, Drafts
<1>7. CASE l.type = "lessee"
  <2>1. d.lessor = u /\ d.lessee = l.owner
    BY <1>3, <1>7 DEF resolveLessorLessee
  <2>2. c
    <3>1. l.type # "lessor"
      BY <1>7
    <3>2. c \in {TRUE}
      BY <3>1, Zenon DEF resolveDealChannelID
    <3>3. QED
      BY <3>2, Zenon
  <2>3. d.channel = c
    BY <1>3
  <2>4. c \in BOOLEAN
    BY <2>2, Zenon DEF resolveDealChannelID
  <2>5. d \in Deals /\ d.price = l.price /\ d.escrow = ComputeEscrowAmount(d.price)
    BY <1>2, <1>3, <1>4, <1>5, <2>1, <2>4 DEF Deals, Drafts
  <2>6. d.channel
    BY <2>2, <2>3, Zenon
  <2>7. AsOffered(d)
    BY <1>5, <1>7, <2>1, <2>5, <2>6 DEF AsOffered
  <2>8. QED
    BY <2>5, <2>7 DEF SoundDeal
<1>8. QED
  BY <1>5, <1>6, <1>7

LEMMA CatalogueInitial == Init => CatalogueInv
<1> SUFFICES ASSUME Init PROVE CatalogueInv
  OBVIOUS
<1>2. offers = listing /\ requests = [q \in Requests |-> NewRequest]
  BY DEF Init
<1>3. requests \in [Requests -> Handlers]
  BY <1>2 DEF NewRequest, Handlers
<1>4. \A q \in Requests : InFlight(q)
  BY <1>2 DEF InFlight, NewRequest
<1>5. CASE listing = {} /\ deals = {}
  BY <1>2, <1>3, <1>4, <1>5 DEF CatalogueInv
<1>6. ASSUME NEW o \in Users, NEW l \in NewListings(o), MayList(l), listing = {l},
             \/ deals = {}
             \/ \E u \in Users \ {o} : \E d \in DealsOn(l, u, None) : deals = {d}
      PROVE  CatalogueInv
  <2>1. l \in Listings /\ l.owner = o /\ Listable(l)
    BY <1>6, NewListingsTyped, MayListListable
  <2>2. \A d \in deals : SoundDeal(d)
    <3>1. ASSUME NEW u \in Users \ {o}, NEW d \in DealsOn(l, u, None), deals = {d}
          PROVE  SoundDeal(d)
      <4>1. l \in offers /\ u \in Users \ {l.owner} /\ None \in Requests \cup {None}
        BY <1>2, <1>6, <2>1
      <4>2. QED
        BY <2>1, <3>1, <4>1, DealsOnSound
    <3>2. QED
      BY <1>6, <3>1
  <2>3. QED
    BY <1>2, <1>3, <1>4, <1>6, <2>1, <2>2 DEF CatalogueInv, SameListing
<1>7. QED
  BY <1>5, <1>6 DEF Init

(* A step of one handler that writes no listing: what it goes on with and    *)
(* the deals it leaves are all there is to show.                             *)
LEMMA QuietStep ==
    ASSUME CatalogueInv, NEW q \in Requests, NEW r \in Handlers, Continue(q, r),
           UNCHANGED <<channelVars, offers>>, listing' \subseteq offers,
           \A d \in deals' : SoundDeal(d),
           r.pc # "insert", InFlight(q)'
    PROVE  CatalogueInv'
<1>1. offers' = offers
  OBVIOUS
<1>2. requests' = [requests EXCEPT ![q] = r] /\ requests' \in [Requests -> Handlers]
  BY DEF Continue, CatalogueInv
<1>3. ASSUME NEW p \in Requests, p # q PROVE InFlight(p)'
  <2>1. requests'[p] = requests[p]
    BY <1>2, <1>3 DEF CatalogueInv
  <2>2. \A x \in Requests : requests'[x].pc = "insert" => requests[x].pc = "insert"
    BY <1>2 DEF CatalogueInv
  <2>3. InFlight(p)
    BY DEF CatalogueInv
  <2>4. QED
    BY <1>1, <2>1, <2>2, <2>3
    DEF InFlight, Listable, NeedsAdmin, SameListing, SoundDeal, AsOffered
<1>4. \A x \in Requests : InFlight(x)'
  BY <1>3
<1>5. \A d \in deals' : SoundDeal(d)'
  BY <1>1 DEF SoundDeal, AsOffered
<1>6. QED
  BY <1>1, <1>2, <1>4, <1>5 DEF CatalogueInv, Listable, NeedsAdmin, SameListing

LEMMA ChannelStep ==
    ASSUME CatalogueInv, UNCHANGED listingVars
    PROVE  CatalogueInv'
<1>2. UNCHANGED <<listing, requests, deals, offers>>
  BY DEF listingVars
<1>3. ASSUME NEW q \in Requests PROVE InFlight(q)'
  <2>1. InFlight(q)
    BY DEF CatalogueInv
  <2>2. QED
    BY <1>2, <2>1 DEF InFlight, Listable, NeedsAdmin, SameListing, SoundDeal, AsOffered
<1>4. QED
  BY <1>2, <1>3 DEF CatalogueInv, Listable, NeedsAdmin, SameListing, SoundDeal, AsOffered

LEMMA DoneStep ==
    ASSUME CatalogueInv, NEW q \in Requests, Continue(q, Done),
           UNCHANGED <<channelVars, offers>>, listing' \subseteq offers,
           \A d \in deals' : SoundDeal(d)
    PROVE  CatalogueInv'
<1>1. Done \in Handlers /\ Done.pc = "done"
  BY DEF Done, NewRequest, Handlers
<1>2. InFlight(q)'
  BY <1>1 DEF CatalogueInv, Continue, InFlight
<1>3. QED
  BY <1>1, <1>2, QuietStep

(* A listing is written, and every state it was in before had its owner and  *)
(* its channel.                                                              *)
LEMMA WriteStep ==
    ASSUME CatalogueInv, NEW q \in Requests, Continue(q, Done),
           UNCHANGED <<channelVars, deals>>,
           NEW l \in Listings, Listable(l), Write(l),
           \A o \in offers : SameListing(l, o),
           \A p \in Requests : p # q => requests[p].pc # "insert",
           \A p \in Requests : requests[p].pc \in {"check", "admin", "update"} => offers # {}
    PROVE  CatalogueInv'
<1>2. /\ requests' = [requests EXCEPT ![q] = Done] /\ requests' \in [Requests -> Handlers]
      /\ Done.pc = "done"
  BY DEF Continue, CatalogueInv, Done, NewRequest, Handlers
<1>3. listing' = {l} /\ offers' = offers \cup {l}
  BY DEF Write
<1>4. InFlight(q)'
  BY <1>2 DEF CatalogueInv, InFlight
<1>5. ASSUME NEW p \in Requests, p # q PROVE InFlight(p)'
  <2>1. requests'[p] = requests[p] /\ requests[p].pc # "insert"
    BY <1>2, <1>5 DEF CatalogueInv
  <2>2. InFlight(p)
    BY DEF CatalogueInv
  <2>3. requests[p].pc \in {"check", "admin", "update"} =>
            \A m \in requests[p].row, o \in offers' : SameListing(m, o)
    BY <1>3, <2>2 DEF InFlight, SameListing
  <2>4. requests[p].pc = "deal" => \A d \in requests[p].row : SoundDeal(d)'
    BY <1>3, <2>2 DEF InFlight, SoundDeal, AsOffered
  <2>5. QED
    BY <1>3, <2>1, <2>2, <2>3, <2>4 DEF InFlight, Listable, NeedsAdmin, SameListing
<1>6. \A d \in deals' : SoundDeal(d)'
  BY <1>3 DEF CatalogueInv, SoundDeal, AsOffered
<1>7. \A m, o \in offers' : SameListing(m, o)
  BY <1>3 DEF CatalogueInv, SameListing
<1>8. \A m \in offers' : Listable(m)'
  BY <1>3 DEF CatalogueInv, Listable, NeedsAdmin
<1>9. QED
  BY <1>2, <1>3, <1>4, <1>5, <1>6, <1>7, <1>8 DEF CatalogueInv, SameListing

-----------------------------------------------------------------------------
(* One lemma for each group of handlers.                                     *)

LEMMA CreateListingStep ==
    ASSUME CatalogueInv, NEW q \in Requests, CheckListing(q) \/ InsertListing(q)
    PROVE  CatalogueInv'
<1>1. CASE CheckListing(q)
  <2>0. PICK u \in Users : \E l \in NewListings(u) :
          /\ MayList(l)
          /\ Continue(q, [pc |-> "insert", user |-> u, named |-> {}, row |-> {l}])
    BY <1>1 DEF CheckListing
  <2>1. PICK l \in NewListings(u) :
          /\ MayList(l)
          /\ Continue(q, [pc |-> "insert", user |-> u, named |-> {}, row |-> {l}])
    BY <2>0
  <2> DEFINE r == [pc |-> "insert", user |-> u, named |-> {}, row |-> {l}]
  <2>2. l \in Listings /\ Listable(l)
    BY <2>1, NewListingsTyped, MayListListable
  <2>3. r \in Handlers
    BY <2>2 DEF Handlers
  <2>4. /\ offers = {} /\ \A p \in Requests : requests[p].pc # "insert"
        /\ UNCHANGED <<listing, deals, offers>>
    BY <1>1 DEF CheckListing
  <2>5. requests' = [requests EXCEPT ![q] = r] /\ requests' \in [Requests -> Handlers]
    BY <2>1, <2>3 DEF Continue, CatalogueInv
  <2>6. InFlight(q)'
    BY <2>2, <2>4, <2>5 DEF InFlight, Listable, NeedsAdmin, CatalogueInv
  <2>7. ASSUME NEW p \in Requests, p # q PROVE InFlight(p)'
    <3>1. requests'[p] = requests[p] /\ requests[p].pc # "insert" /\ InFlight(p)
      BY <2>4, <2>5, <2>7 DEF CatalogueInv
    <3>2. QED
      BY <2>4, <3>1 DEF InFlight, Listable, NeedsAdmin, SameListing, SoundDeal, AsOffered
  <2>8. QED
    BY <2>4, <2>5, <2>6, <2>7
    DEF CatalogueInv, Listable, NeedsAdmin, SameListing, SoundDeal, AsOffered
<1>2. CASE InsertListing(q)
  <2>1. PICK l \in requests[q].row : Write(l)
    BY <1>2 DEF InsertListing
  <2>2. /\ requests[q].pc = "insert" /\ Continue(q, Done)
        /\ UNCHANGED <<channelVars, deals>>
    BY <1>2 DEF InsertListing
  <2>3. InFlight(q) /\ \A p \in Requests : InFlight(p)
    BY DEF CatalogueInv
  <2>4. /\ offers = {} /\ l \in Listings /\ Listable(l)
        /\ \A p \in Requests : requests[p].pc = "insert" => p = q
    BY <2>1, <2>2, <2>3 DEF InFlight
  <2>5. \A p \in Requests : requests[p].pc \in {"check", "admin", "update"} => offers # {}
    BY <2>3 DEF InFlight
  <2>6. QED
    BY <2>1, <2>2, <2>4, <2>5, WriteStep
<1>3. QED
  BY <1>1, <1>2

LEMMA MergedListing ==
    ASSUME NEW l \in Listings, NEW named \in SUBSET Fields, NEW t \in Types,
           NEW p \in Prices, "price" \in named => ValidateListingPrices(p)
    PROVE  /\ mergeListingWithUpdate(l, named, [type |-> t, price |-> p]) \in Listings
           /\ SameListing(mergeListingWithUpdate(l, named, [type |-> t, price |-> p]), l)
<1>1. "price" \in named => TONToNanoton(p) \in Nanotons
  BY DEF Nanotons
<1>2. QED
  BY <1>1 DEF mergeListingWithUpdate, Listings, SameListing

LEMMA UpdateListingStep ==
    ASSUME CatalogueInv, NEW q \in Requests,
           \/ ReadForUpdate(q) \/ CheckUpdate(q) \/ CheckAdmin(q)
           \/ UpdateListing(q) \/ DeleteListing(q)
    PROVE  CatalogueInv'
<1>1. CASE ReadForUpdate(q)
  <2>1. PICK l \in listing, u \in Users, named \in SUBSET Fields \ {{}}, t \in Types,
             p \in Prices :
          Continue(q, IF "price" \in named => ValidateListingPrices(p)
              THEN [pc |-> "check", user |-> u, named |-> named,
                    row |-> {mergeListingWithUpdate(l, named, [type |-> t, price |-> p])}]
              ELSE Done)
    BY <1>1 DEF ReadForUpdate
  <2>2. UNCHANGED <<channelVars, listing, deals, offers>>
    BY <1>1 DEF ReadForUpdate
  <2>3. /\ listing' \subseteq offers /\ \A d \in deals' : SoundDeal(d)
        /\ l \in offers /\ l \in Listings
    BY <2>2 DEF CatalogueInv
  <2>4. CASE "price" \in named => ValidateListingPrices(p)
    <3> DEFINE m == mergeListingWithUpdate(l, named, [type |-> t, price |-> p])
               r == [pc |-> "check", user |-> u, named |-> named, row |-> {m}]
    <3>1. m \in Listings /\ SameListing(m, l)
      BY <2>3, <2>4, MergedListing
    <3> HIDE DEF m
    <3>2. r \in Handlers /\ Continue(q, r)
      BY <2>1, <2>4, <3>1 DEF Handlers, m
    <3>3. \A o \in offers : SameListing(m, o)
      BY <2>3, <3>1 DEF CatalogueInv, SameListing
    <3>4. requests'[q] = r /\ offers' = offers
      BY <2>2, <3>2 DEF Continue, CatalogueInv
    <3>5. InFlight(q)'
      BY <2>3, <3>1, <3>3, <3>4 DEF InFlight, SameListing
    <3>6. QED
      BY <2>2, <2>3, <3>2, <3>5, QuietStep
  <2>5. CASE ~("price" \in named => ValidateListingPrices(p))
    BY <2>1, <2>2, <2>3, <2>5, DoneStep
  <2>6. QED
    BY <2>4, <2>5
<1>2. CASE CheckUpdate(q)
  <2>1. UNCHANGED <<channelVars, listing, deals, offers>> /\ requests[q].pc = "check"
    BY <1>2 DEF CheckUpdate
  <2>2. listing' \subseteq offers /\ \A d \in deals' : SoundDeal(d)
    BY <2>1 DEF CatalogueInv
  <2>3. CASE Continue(q, Done)
    BY <2>1, <2>2, <2>3, DoneStep
  <2>4. ASSUME NEW l \in listing, NEW row \in requests[q].row, NEW pc \in {"admin", "update"},
               l.owner = requests[q].user, pc = "update" => ~NeedsAdmin(row),
               Continue(q, [requests[q] EXCEPT !.pc = pc])
        PROVE  CatalogueInv'
    <3> DEFINE r == [requests[q] EXCEPT !.pc = pc]
    <3>1. InFlight(q) /\ requests[q] \in Handlers
      BY DEF CatalogueInv
    <3>2. r \in Handlers /\ r.pc = pc /\ r.row = requests[q].row /\ r.user = l.owner
      BY <2>4, <3>1 DEF Handlers
    <3>3. /\ offers # {} /\ l \in offers /\ requests[q].row \subseteq Listings
          /\ \A m \in requests[q].row, o \in offers : SameListing(m, o)
          /\ \A m \in requests[q].row : m = row
      BY <2>1, <3>1 DEF InFlight, CatalogueInv
    <3>4. pc = "update" => \A m \in requests[q].row : Listable(m)
      BY <2>4, <3>3 DEF Listable, NeedsAdmin
    <3>5. requests'[q] = r /\ offers' = offers
      BY <2>1, <2>4 DEF Continue, CatalogueInv
    <3> HIDE DEF r
    <3>6. InFlight(q)'
      BY <3>2, <3>3, <3>4, <3>5 DEF InFlight, SameListing, Listable, NeedsAdmin
    <3>7. QED
      BY <2>1, <2>2, <2>4, <3>2, <3>6, QuietStep DEF r
  <2>5. QED
    BY <1>2, <2>3, <2>4 DEF CheckUpdate
<1>3. CASE CheckAdmin(q)
  <2>1. UNCHANGED <<channelVars, listing, deals, offers>> /\ requests[q].pc = "admin"
    BY <1>3 DEF CheckAdmin
  <2>2. listing' \subseteq offers /\ \A d \in deals' : SoundDeal(d)
    BY <2>1 DEF CatalogueInv
  <2>3. CASE Continue(q, Done)
    BY <2>1, <2>2, <2>3, DoneStep
  <2> DEFINE Vetted(row) == [row EXCEPT !.vetted = IsChannelAdmin(row.owner)]
             rows == {Vetted(row) : row \in requests[q].row}
             r == [requests[q] EXCEPT !.pc = "update", !.row = rows]
  <2>4. CASE IsChannelAdmin(requests[q].user) /\ Continue(q, r)
    <3>1. InFlight(q) /\ requests[q] \in Handlers
      BY DEF CatalogueInv
    <3>2. /\ offers # {} /\ requests[q].row \subseteq Listings
          /\ \A m \in requests[q].row, o \in offers : SameListing(m, o)
          /\ \A m \in requests[q].row : m.owner = requests[q].user
      BY <2>1, <3>1 DEF InFlight
    <3>3. ASSUME NEW row \in requests[q].row
          PROVE  /\ Vetted(row) \in Listings /\ Vetted(row).vetted
                 /\ \A o \in offers : SameListing(Vetted(row), o)
      <4>1. row \in Listings /\ IsChannelAdmin(row.owner) = TRUE
        BY <2>4, <3>2 DEF IsChannelAdmin
      <4>2. Vetted(row) = [row EXCEPT !.vetted = TRUE]
        BY <4>1, Zenon
      <4>3. [row EXCEPT !.vetted = TRUE] \in Listings
        BY <4>1 DEF Listings
      <4>4. /\ [row EXCEPT !.vetted = TRUE].vetted
            /\ [row EXCEPT !.vetted = TRUE].owner = row.owner
            /\ [row EXCEPT !.vetted = TRUE].channel = row.channel
        BY <4>1 DEF Listings
      <4>5. QED
        BY <3>2, <4>2, <4>3, <4>4 DEF SameListing
    <3> HIDE DEF Vetted
    <3>4. /\ rows \subseteq Listings /\ \A m \in rows : Listable(m)
          /\ \A m \in rows, o \in offers : SameListing(m, o)
      BY <3>3 DEF Listable
    <3> HIDE DEF rows
    <3>5. r \in Handlers /\ r.pc = "update" /\ r.row = rows
      BY <3>1, <3>4 DEF Handlers
    <3>6. requests'[q] = r /\ offers' = offers
      BY <2>1, <2>4 DEF Continue, CatalogueInv
    <3> HIDE DEF r
    <3>7. InFlight(q)'
      BY <3>2, <3>4, <3>5, <3>6 DEF InFlight, SameListing, Listable, NeedsAdmin
    <3>8. QED
      BY <2>1, <2>2, <2>4, <3>5, <3>7, QuietStep
  <2>5. QED
    BY <1>3, <2>3, <2>4 DEF CheckAdmin
<1>4. CASE UpdateListing(q)
  <2>1. /\ requests[q].pc = "update" /\ Continue(q, Done)
        /\ UNCHANGED <<channelVars, deals>>
    BY <1>4 DEF UpdateListing
  <2>2. CASE listing = {} /\ UNCHANGED <<listing, offers>>
    <3>1. listing' \subseteq offers /\ \A d \in deals' : SoundDeal(d)
      BY <2>1, <2>2 DEF CatalogueInv
    <3>2. QED
      BY <2>1, <2>2, <3>1, DoneStep
  <2>3. ASSUME NEW l \in requests[q].row, Write(l) PROVE CatalogueInv'
    <3>1. InFlight(q) /\ \A p \in Requests : InFlight(p)
      BY DEF CatalogueInv
    <3>2. /\ offers # {} /\ l \in Listings /\ Listable(l)
          /\ \A o \in offers : SameListing(l, o)
      BY <2>1, <2>3, <3>1 DEF InFlight
    <3>3. \A p \in Requests : requests[p].pc # "insert"
      BY <3>1, <3>2 DEF InFlight
    <3>4. QED
      BY <2>1, <2>3, <3>2, <3>3, WriteStep
  <2>4. QED
    BY <1>4, <2>2, <2>3 DEF UpdateListing
<1>5. CASE DeleteListing(q)
  <2>1. /\ listing' = {} /\ deals = {} /\ Continue(q, Done)
        /\ UNCHANGED <<channelVars, deals, offers>>
    BY <1>5 DEF DeleteListing
  <2>2. QED
    BY <2>1, DoneStep
<1>6. QED
  BY <1>1, <1>2, <1>3, <1>4, <1>5

(* A sound deal amended to a price that was offered is a sound deal.         *)
LEMMA AmendedSound ==
    ASSUME CatalogueInv, NEW d, SoundDeal(d), NEW n, \E o \in offers : n = o.price
    PROVE  SoundDeal(Priced(d, n))
<1>1. n \in Nanotons /\ n \in Nat
  <2>1. PICK o \in offers : n = o.price
    OBVIOUS
  <2>2. o \in Listings
    BY DEF CatalogueInv
  <2>3. QED
    BY <2>1, <2>2, NanotonsNat DEF Listings
<1>2. ComputeEscrowAmount(n) \in Nat
  BY <1>1, PayoutOfEscrow
<1>3. d \in Drafts
  BY DEF SoundDeal, Deals
<1>4. /\ Priced(d, n) \in Drafts
      /\ Priced(d, n).price = n /\ Priced(d, n).escrow = ComputeEscrowAmount(n)
      /\ Priced(d, n).lessor = d.lessor /\ Priced(d, n).lessee = d.lessee
      /\ Priced(d, n).channel = d.channel
  <2> DEFINE b == ComputeEscrowAmount(n)
  <2>1. b \in Nat /\ Priced(d, n) = [d EXCEPT !.price = n, !.escrow = b]
    BY <1>2 DEF Priced
  <2> HIDE DEF b
  <2>2. d = [id |-> d.id, lessor |-> d.lessor, lessee |-> d.lessee,
             channel |-> d.channel, price |-> d.price, escrow |-> d.escrow]
    BY <1>3 DEF Drafts
  <2>3. Priced(d, n) \in Drafts
    <3>1. Priced(d, n) = [id |-> d.id, lessor |-> d.lessor, lessee |-> d.lessee,
                          channel |-> d.channel, price |-> n, escrow |-> b]
      BY <2>1, <2>2
    <3>2. QED
      BY <1>1, <1>3, <2>1, <3>1 DEF Drafts
  <2>4. Priced(d, n).price = n /\ Priced(d, n).escrow = ComputeEscrowAmount(n)
    BY <1>3, <2>1 DEF Drafts, b
  <2>5. Priced(d, n).lessor = d.lessor /\ Priced(d, n).lessee = d.lessee
    BY <1>3, <2>1 DEF Drafts
  <2>6. Priced(d, n).channel = d.channel
    BY <1>3, <2>1 DEF Drafts
  <2>7. QED
    BY <2>3, <2>4, <2>5, <2>6
<1>5. QED
  BY <1>1, <1>4 DEF SoundDeal, AsOffered, Deals

LEMMA CreateDealStep ==
    ASSUME CatalogueInv, NEW q \in Requests, ReadForDeal(q) \/ InsertDeal(q)
    PROVE  CatalogueInv'
<1>1. CASE ReadForDeal(q)
  <2>1. PICK l \in listing : \E u \in Users \ {l.owner} : \E d \in DealsOn(l, u, q) :
          Continue(q, [pc |-> "deal", user |-> u, named |-> {}, row |-> {d}])
    BY <1>1 DEF ReadForDeal
  <2>2. PICK u \in Users \ {l.owner} : \E d \in DealsOn(l, u, q) :
          Continue(q, [pc |-> "deal", user |-> u, named |-> {}, row |-> {d}])
    BY <2>1
  <2>3. PICK d \in DealsOn(l, u, q) :
          Continue(q, [pc |-> "deal", user |-> u, named |-> {}, row |-> {d}])
    BY <2>2
  <2>4. UNCHANGED <<channelVars, listing, deals, offers>>
    BY <1>1 DEF ReadForDeal
  <2>5. /\ listing' \subseteq offers /\ l \in offers /\ l \in Listings
        /\ \A x \in deals' : SoundDeal(x)
    BY <2>4 DEF CatalogueInv
  <2>6. SoundDeal(d)
    BY <2>5, DealsOnSound
  <2> DEFINE r == [pc |-> "deal", user |-> u, named |-> {}, row |-> {d}]
  <2>7. r \in Handlers
    BY <2>6 DEF Handlers, SoundDeal, Deals
  <2>8. requests'[q] = r /\ offers' = offers
    BY <2>3, <2>4 DEF Continue, CatalogueInv
  <2>9. InFlight(q)'
    BY <2>6, <2>8 DEF InFlight, SoundDeal, AsOffered
  <2>10. QED
    BY <2>3, <2>4, <2>5, <2>7, <2>9, QuietStep
<1>2. CASE InsertDeal(q)
  <2>1. /\ requests[q].pc = "deal" /\ Continue(q, Done)
        /\ deals' \subseteq deals \cup requests[q].row
        /\ UNCHANGED <<channelVars, listing, offers>>
    BY <1>2 DEF InsertDeal
  <2>2. listing' \subseteq offers /\ \A d \in deals' : SoundDeal(d)
    BY <2>1 DEF CatalogueInv, InFlight
  <2>3. QED
    BY <2>1, <2>2, DoneStep
<1>3. QED
  BY <1>1, <1>2

LEMMA UpdateDraftStep ==
    ASSUME CatalogueInv, NEW q \in Requests,
           ReadDraft(q) \/ MatchDraft(q) \/ UpdateDealDraft(q)
    PROVE  CatalogueInv'
<1>1. CASE ReadDraft(q)
  <2>1. PICK d \in deals, named \in {{}, {"price"}}, p \in Prices :
          Continue(q, [pc |-> "match", user |-> None, named |-> named,
                       row |-> {applyUpdateDealDraftRequest(d, named, p)}])
    BY <1>1 DEF ReadDraft
  <2> DEFINE n == applyUpdateDealDraftRequest(d, named, p)
             r == [pc |-> "match", user |-> None, named |-> named, row |-> {n}]
  <2>2. UNCHANGED <<channelVars, listing, deals, offers>>
    BY <1>1 DEF ReadDraft
  <2>3. /\ listing' \subseteq offers /\ SoundDeal(d) /\ d \in Drafts
        /\ \A x \in deals' : SoundDeal(x)
    BY <2>2 DEF CatalogueInv, SoundDeal, Deals
  <2>4. n \in Drafts /\ ("price" \notin named => n.price = d.price)
    BY <2>3, TONToNanotonInt DEF applyUpdateDealDraftRequest, Drafts
  <2> HIDE DEF n
  <2>5. r \in Handlers /\ Continue(q, r)
    BY <2>1, <2>4 DEF Handlers, Fields, n
  <2>6. requests'[q] = r /\ offers' = offers
    BY <2>2, <2>5 DEF Continue, CatalogueInv
  <2>7. "price" \notin named => \E o \in offers : n.price = o.price
    BY <2>3, <2>4 DEF SoundDeal, AsOffered
  <2>8. InFlight(q)'
    BY <2>4, <2>6, <2>7 DEF InFlight
  <2>9. QED
    BY <2>2, <2>3, <2>5, <2>8, QuietStep
<1>2. CASE MatchDraft(q)
  <2>1. UNCHANGED <<channelVars, listing, deals, offers>> /\ requests[q].pc = "match"
    BY <1>2 DEF MatchDraft
  <2>2. listing' \subseteq offers /\ \A d \in deals' : SoundDeal(d)
    BY <2>1 DEF CatalogueInv
  <2>3. CASE Continue(q, Done)
    BY <2>1, <2>2, <2>3, DoneStep
  <2>4. ASSUME Continue(q, [requests[q] EXCEPT !.pc = "draft"]),
               "price" \in requests[q].named =>
                    \E l \in listing, d \in requests[q].row : DealPriceMatchesListing(l, d.price)
        PROVE  CatalogueInv'
    <3> DEFINE r == [requests[q] EXCEPT !.pc = "draft"]
    <3>1. InFlight(q) /\ requests[q] \in Handlers
      BY DEF CatalogueInv
    <3>2. /\ r \in Handlers /\ r.pc = "draft"
          /\ r.row = requests[q].row /\ r.named = requests[q].named
      BY <3>1 DEF Handlers
    <3>3. \A d \in requests[q].row : \E o \in offers : d.price = o.price
      <4>1. CASE "price" \notin requests[q].named
        BY <2>1, <3>1, <4>1 DEF InFlight
      <4>2. CASE "price" \in requests[q].named
        <5>1. PICK l \in listing, d \in requests[q].row : l.price = d.price
          BY <2>4, <4>2 DEF DealPriceMatchesListing
        <5>2. l \in offers /\ \A x \in requests[q].row : x = d
          BY <2>1, <3>1 DEF InFlight, CatalogueInv
        <5>3. QED
          BY <5>1, <5>2
      <4>3. QED
        BY <4>1, <4>2
    <3>4. requests'[q] = r /\ offers' = offers
      BY <2>1, <2>4 DEF Continue, CatalogueInv
    <3> HIDE DEF r
    <3>5. InFlight(q)'
      BY <2>1, <3>1, <3>2, <3>3, <3>4 DEF InFlight
    <3>6. QED
      BY <2>1, <2>2, <2>4, <3>2, <3>5, QuietStep DEF r
  <2>5. QED
    BY <1>2, <2>3, <2>4 DEF MatchDraft
<1>3. CASE UpdateDealDraft(q)
  <2>1. /\ requests[q].pc = "draft" /\ Continue(q, Done)
        /\ UNCHANGED <<channelVars, listing, offers>>
    BY <1>3 DEF UpdateDealDraft
  <2>2. PICK new \in requests[q].row :
          deals' = {IF d.id = new.id THEN Priced(d, new.price) ELSE d : d \in deals}
    BY <1>3 DEF UpdateDealDraft
  <2>3. \E o \in offers : new.price = o.price
    BY <2>1 DEF CatalogueInv, InFlight
  <2>4. \A d \in deals : SoundDeal(d) /\ SoundDeal(Priced(d, new.price))
    BY <2>3, AmendedSound DEF CatalogueInv
  <2>5. listing' \subseteq offers /\ \A d \in deals' : SoundDeal(d)
    BY <2>1, <2>2, <2>4 DEF CatalogueInv
  <2>6. QED
    BY <2>1, <2>5, DoneStep
<1>4. QED
  BY <1>1, <1>2, <1>3

-----------------------------------------------------------------------------
LEMMA CatalogueStep == CatalogueInv /\ [Next]_vars => CatalogueInv'
<1> SUFFICES ASSUME CatalogueInv, [Next]_vars PROVE CatalogueInv'
  OBVIOUS
<1>1. CASE (ChannelNext /\ UNCHANGED listingVars) \/ UNCHANGED vars
  BY <1>1, ChannelStep DEF vars
<1>2. ASSUME NEW q \in Requests, Request(q) PROVE CatalogueInv'
  BY <1>2, CreateListingStep, UpdateListingStep, CreateDealStep, UpdateDraftStep DEF Request
<1>3. QED
  BY <1>1, <1>2 DEF Next

LEMMA CatalogueInvariant == Spec => []CatalogueInv
  BY CatalogueInitial, CatalogueStep, PTL DEF Spec

(* Every deal pays out its price to the nanoton and covers price and gas,    *)
(* for any prices, gas and commission, however listings and drafts are       *)
(* edited by requests that cross: calculations.go and UpdateDealDraft.       *)
THEOREM PayoutIsThePrice == Spec => []PayoutIsPrice
<1>1. CatalogueInv => PayoutIsPrice
  <2>1. SUFFICES ASSUME CatalogueInv, NEW d \in deals
                 PROVE  /\ GetAmountWithoutGasAndCommission(d.escrow) = d.price
                        /\ d.escrow >= d.price + Gas
    BY DEF PayoutIsPrice
  <2>2. d.price \in Nat /\ d.escrow = ComputeEscrowAmount(d.price)
    BY <2>1, NanotonsNat DEF CatalogueInv, SoundDeal, Deals
  <2>3. QED
    BY <2>2, PayoutOfEscrow
<1>2. QED
  BY <1>1, CatalogueInvariant, PTL

(* A channel is offered only by a user who was its admin when the request    *)
(* that made or last changed the offer asked, for any number of requests     *)
(* that cross and any syncs of the admins meanwhile.                         *)
THEOREM ChannelListedByAdmin == Spec => []ListedByAdmin
<1>1. CatalogueInv => ListedByAdmin
  BY DEF CatalogueInv, ListedByAdmin, Listable, NeedsAdmin
<1>2. QED
  BY <1>1, CatalogueInvariant, PTL

(* A deal keeps to what the listing has offered, for any number of requests  *)
(* that edit the listing, make deals and amend them.                         *)
THEOREM DealKeepsToOffer == Spec => []DealAsOffered
<1>1. CatalogueInv => DealAsOffered
  BY DEF CatalogueInv, DealAsOffered, SoundDeal
<1>2. QED
  BY <1>1, CatalogueInvariant, PTL

(* No request changes the owner or the channel of a listing, or brings a     *)
(* deleted one back, whatever it read before.                                *)
THEOREM ListingIdentityKept == Spec => OwnerAndChannelKept
<1> DEFINE Kept ==
        /\ \A l \in listing, m \in listing' : l.owner = m.owner /\ l.channel = m.channel
        /\ (listing = {} /\ offers # {}) => listing' = {}
<1>1. CatalogueInv /\ [Next]_vars => [Kept]_vars
  <2> SUFFICES ASSUME CatalogueInv, [Next]_vars PROVE Kept
    OBVIOUS
  <2>1. \A l, m \in listing : l.owner = m.owner /\ l.channel = m.channel
    BY DEF CatalogueInv, SameListing
  <2>2. CASE listing' \in {listing, {}}
    BY <2>1, <2>2
  <2>3. ASSUME NEW q \in Requests, InsertListing(q) PROVE Kept
    <3>1. offers = {} /\ listing = {}
      BY <2>3 DEF InsertListing, CatalogueInv, InFlight
    <3>2. QED
      BY <3>1
  <2>4. ASSUME NEW q \in Requests, UpdateListing(q) PROVE Kept
    <3>1. CASE UNCHANGED listing
      BY <2>2, <3>1
    <3>2. ASSUME NEW row \in requests[q].row, listing # {}, Write(row) PROVE Kept
      <4>1. \A o \in offers : SameListing(row, o)
        BY <2>4 DEF UpdateListing, CatalogueInv, InFlight
      <4>2. listing' = {row} /\ listing \subseteq offers
        BY <3>2 DEF Write, CatalogueInv
      <4>3. QED
        BY <3>2, <4>1, <4>2 DEF SameListing
    <3>3. QED
      BY <2>4, <3>1, <3>2 DEF UpdateListing
  <2>5. ASSUME NEW q \in Requests, Request(q), ~InsertListing(q), ~UpdateListing(q)
        PROVE  listing' \in {listing, {}}
    BY <2>5 DEF Request, CheckListing, ReadForUpdate, CheckUpdate, CheckAdmin,
                DeleteListing,
                ReadForDeal, InsertDeal, ReadDraft, MatchDraft, UpdateDealDraft
  <2>6. CASE UNCHANGED listingVars
    BY <2>2, <2>6 DEF listingVars
  <2>7. QED
    BY <2>2, <2>3, <2>4, <2>5, <2>6 DEF Next, vars
<1>2. QED
  BY <1>1, CatalogueInvariant, PTL DEF Spec, OwnerAndChannelKept

-----------------------------------------------------------------------------
(* Refresh requests and the document of the statistics.                      *)

RefreshState ==
    [pc : {"start", "merge", "write", "push", "done", "denied", "failed"},
     now : Nat, version : Nat, want : Nat]

(* What the steps do to the document and to those who read and write it.     *)
LEMMA ChannelEffects ==
    ASSUME StatisticsTyped, [ChannelNext]_channelVars
    PROVE  \/ UNCHANGED <<clock, telegram, stats, fetch, crossed, refresh, raced>>
           \/ clock' = clock + 1
                /\ UNCHANGED <<telegram, stats, fetch, crossed, refresh, raced>>
           \/ /\ telegram' \in [admins : SUBSET Users, version : Nat \ {0}, changes : Nat]
              /\ telegram'.version >= telegram.version
              /\ UNCHANGED <<clock, stats, fetch, crossed, refresh, raced>>
           \/ \E f \in Fetchers : /\ Fetch(f) \/ Store(f) \/ Abandon(f)
                                  /\ UNCHANGED <<clock, telegram, refresh, raced>>
           \/ /\ fetch' = [f \in Fetchers |-> 0] /\ crossed' = crossed \ Fetchers
              /\ UNCHANGED <<clock, telegram, stats, refresh, raced>>
           \/ \E r \in Refreshes : RequestStatsRefresh(r)
<1> USE DEF worldVars, syncVars, statsVars, streamVars, refreshVars
<1>1. CASE Tick
  BY <1>1 DEF Tick
<1>2. CASE ChangeAdmins
  <2>1. PICK A \in SUBSET Users : telegram' = [telegram EXCEPT !.admins = A, !.changes = @ + 1]
    BY <1>2 DEF ChangeAdmins
  <2>2. /\ telegram' \in [admins : SUBSET Users, version : Nat \ {0}, changes : Nat]
        /\ telegram'.version >= telegram.version
    <3>1. /\ telegram \in [admins : SUBSET Users, version : Nat \ {0}, changes : Nat]
          /\ telegram.changes \in Nat /\ telegram.version \in Nat /\ telegram.changes + 1 \in Nat
      BY DEF StatisticsTyped
    <3>2. telegram' = [admins |-> A, version |-> telegram.version,
                       changes |-> telegram.changes + 1]
      BY <2>1, <3>1
    <3>3. telegram.version \in Nat \ {0}
      BY <3>1
    <3>4. QED
      BY <3>1, <3>2, <3>3
  <2>3. QED
    BY <1>2, <2>2 DEF ChangeAdmins
<1>3. CASE StatisticsGrow
  <2>1. /\ telegram' \in [admins : SUBSET Users, version : Nat \ {0}, changes : Nat]
        /\ telegram'.version >= telegram.version
    BY <1>3 DEF StatisticsGrow, StatisticsTyped
  <2>2. QED
    BY <1>3, <2>1 DEF StatisticsGrow
<1>4. CASE HandleChannelUpdate
  <2>1. CASE UpdateStats
    <3>1. /\ Fetch("update") \/ Store("update") \/ Abandon("update")
          /\ UNCHANGED <<clock, telegram, refresh, raced>>
      BY <2>1 DEF UpdateStats
    <3>2. "update" \in Fetchers
      BY DEF Fetchers
    <3>3. QED
      BY <3>1, <3>2
  <2>2. CASE UpsertChannel \/ DeleteChannelAdmins \/ UpsertChannelAdmin \/ UpdateChannelPhoto
    <3>1. UNCHANGED <<worldVars, statsVars, refreshVars>>
      BY <2>2 DEF UpsertChannel, DeleteChannelAdmins, UpsertChannelAdmin, UpdateChannelPhoto
    <3>2. QED
      BY <3>1
  <2>3. QED
    BY <1>4, <2>1, <2>2 DEF HandleChannelUpdate
<1>5. CASE RestartUserbot
  BY <1>5 DEF RestartUserbot
<1>6. ASSUME NEW f \in Consumers, HandleEvents(f)
      PROVE  \/ UNCHANGED <<clock, telegram, stats, fetch, crossed, refresh, raced>>
             \/ /\ Fetch(f) \/ Store(f) \/ Abandon(f)
                /\ UNCHANGED <<clock, telegram, refresh, raced>>
  BY <1>6 DEF HandleEvents, TakeEvent, DropEvent, ServeEvent, FinishEvent
<1>7. Consumers \subseteq Fetchers
  BY DEF Fetchers
<1>8. CASE UNCHANGED channelVars
  BY <1>8 DEF channelVars
<1>9. QED
  BY <1>1, <1>2, <1>3, <1>4, <1>5, <1>6, <1>7, <1>8 DEF ChannelNext

LEMMA StatisticsInitial == ChannelInit => ChannelInv
<1> SUFFICES ASSUME ChannelInit PROVE ChannelInv
  OBVIOUS
<1>1. \A r \in Refreshes : refresh[r].pc = "start"
  BY DEF ChannelInit, NewRefresh
<1>2. StatisticsTyped
  BY SetsAssumption DEF ChannelInit, StatisticsTyped, NewRefresh
<1>3. CooldownRemembered /\ CooldownKept
  BY <1>1 DEF CooldownRemembered, CooldownKept, Begun, Unwritten
<1>4. UncrossedIsFresh
  BY <1>1 DEF ChannelInit, UncrossedIsFresh
<1>5. QED
  BY <1>2, <1>3, <1>4 DEF ChannelInv

(* As long as nobody has to do with the requests, the cooldown is kept.      *)
LEMMA CooldownAside ==
    ASSUME ChannelInv, UNCHANGED <<refresh, raced>>, clock' \in Nat, clock' >= clock,
           stats'.at = stats.at \/ stats'.at = clock
    PROVE  CooldownRemembered' /\ CooldownKept'
<1>1. /\ \A r \in Refreshes : refresh[r].now \in Nat
      /\ clock \in Nat /\ stats.at \in Nat
  BY DEF ChannelInv, StatisticsTyped
<1>2. CooldownKept'
  BY DEF ChannelInv, CooldownKept
<1>3. CooldownRemembered'
  BY <1>1 DEF ChannelInv, CooldownRemembered, Begun, Unwritten
<1>4. QED
  BY <1>2, <1>3

(* A version read now is that of Telegram, which no version exceeds; whoever *)
(* has read is crossed by a write.                                           *)
LEMMA FetcherStep ==
    ASSUME ChannelInv, NEW f \in Fetchers, Fetch(f) \/ Store(f) \/ Abandon(f),
           UNCHANGED <<clock, telegram, refresh, raced>>
    PROVE  ChannelInv' /\ (stats'.version < stats.version => crossed \ crossed' # {})
<1>1. /\ clock \in Nat /\ stats \in [version : Nat, at : Nat] /\ telegram.version \in Nat
      /\ fetch \in [Fetchers -> Nat] /\ fetch[f] \in Nat /\ stats.version \in Nat
  BY DEF ChannelInv, StatisticsTyped
<1>2. f \notin Refreshes
  BY NamesAssumption
<1>3. CASE Fetch(f)
  <2>1. /\ UNCHANGED <<stats, crossed>> /\ fetch' \in [Fetchers -> Nat]
        /\ fetch'[f] = telegram.version
        /\ \A g \in Fetchers \ {f} : fetch'[g] = fetch[g]
    BY <1>1, <1>3 DEF Fetch
  <2>2. StatisticsTyped'
    BY <2>1 DEF ChannelInv, StatisticsTyped
  <2>3. UncrossedIsFresh'
    BY <1>1, <2>1 DEF ChannelInv, UncrossedIsFresh
  <2>4. QED
    BY <1>1, <2>1, <2>2, <2>3, CooldownAside DEF ChannelInv
<1>4. CASE Abandon(f)
  <2>1. /\ UNCHANGED stats /\ fetch' \in [Fetchers -> Nat] /\ fetch'[f] = 0
        /\ \A g \in Fetchers \ {f} : fetch'[g] = fetch[g]
        /\ crossed' = crossed \ {f}
    BY <1>1, <1>4 DEF Abandon
  <2>2. StatisticsTyped'
    BY <2>1 DEF ChannelInv, StatisticsTyped
  <2>3. UncrossedIsFresh'
    BY <1>1, <1>2, <2>1 DEF ChannelInv, UncrossedIsFresh
  <2>4. QED
    BY <1>1, <2>1, <2>2, <2>3, CooldownAside DEF ChannelInv
<1>5. CASE Store(f)
  <2>1. /\ fetch[f] # 0 /\ fetch' \in [Fetchers -> Nat] /\ fetch'[f] = 0
        /\ \A g \in Fetchers \ {f} : fetch'[g] = fetch[g]
        /\ stats' = [version |-> fetch[f], at |-> clock]
        /\ crossed' = (crossed \cup {g \in Fetchers : fetch[g] # 0}
                               \cup {r \in Refreshes : refresh[r].pc = "write"}) \ {f}
    BY <1>1, <1>5 DEF Store, UpsertChannelStats
  <2>2. /\ stats' \in [version : Nat, at : Nat]
        /\ stats'.version = fetch[f] /\ stats'.at = clock
    BY <1>1, <2>1
  <2>3. StatisticsTyped'
    BY <2>1, <2>2 DEF ChannelInv, StatisticsTyped
  <2>4. /\ \A g \in Fetchers \ {f} : fetch[g] # 0 => g \in crossed'
        /\ \A r \in Refreshes : refresh[r].pc = "write" => r \in crossed'
        /\ f \notin crossed'
    BY <1>2, <2>1
  <2>5. UncrossedIsFresh'
    BY <1>1, <2>1, <2>2, <2>4 DEF ChannelInv, UncrossedIsFresh
  <2>6. stats'.version < stats.version => crossed \ crossed' # {}
    BY <1>1, <2>1, <2>2, <2>4 DEF ChannelInv, UncrossedIsFresh
  <2>7. QED
    BY <1>1, <2>2, <2>3, <2>5, <2>6, CooldownAside DEF ChannelInv
<1>6. QED
  BY <1>3, <1>4, <1>5

(* A request that goes on keeps its time.                                    *)
LEMMA CooldownStays ==
    ASSUME ChannelInv, UNCHANGED raced,
           \A s \in Refreshes :
             /\ refresh'[s].now = refresh[s].now
             /\ (Begun(s) \/ Unwritten(s))' => Begun(s) \/ Unwritten(s)
    PROVE  CooldownKept'
<1> SUFFICES ASSUME NEW s \in Refreshes \ raced, NEW t \in Refreshes \ raced, s # t,
                    refresh[s].now <= refresh[t].now,
                    (Begun(s) \/ Unwritten(s))', (Begun(t) \/ Unwritten(t))'
             PROVE  refresh[t].now >= refresh[s].now + Cooldown
  BY DEF CooldownKept, Begun, Unwritten
<1>1. Begun(s) \/ Unwritten(s)
  OBVIOUS
<1>2. Begun(t) \/ Unwritten(t)
  OBVIOUS
<1>3. QED
  BY <1>1, <1>2 DEF ChannelInv, CooldownKept, Begun, Unwritten

(* How a request goes on.                                                    *)
LEMMA RefreshWritten ==
    ASSUME ChannelInv, NEW r \in Refreshes, NEW x \in RefreshState,
           refresh' = [refresh EXCEPT ![r] = x],
           UNCHANGED <<clock, telegram, fetch>>, stats' \in [version : Nat, at : Nat]
    PROVE  /\ StatisticsTyped' /\ refresh'[r] = x
           /\ \A s \in Refreshes \ {r} : refresh'[s] = refresh[s]
  BY DEF ChannelInv, StatisticsTyped, RefreshState

(* A request let through, beside others or alone.                            *)
LEMMA CheckStep ==
    ASSUME ChannelInv, NEW r \in Refreshes, CheckRefresh(r) PROVE ChannelInv'
<1> USE DEF worldVars, syncVars, statsVars, streamVars, refreshVars
<1>1. /\ UNCHANGED <<clock, telegram, stats, fetch, crossed>> /\ refresh[r].pc = "start"
      /\ \/ /\ CooledDown(clock)
            /\ refresh' = [refresh EXCEPT ![r].now = clock, ![r].pc = "merge"]
            /\ raced' = raced \cup (IF {s \in Refreshes : Unwritten(s)} = {} THEN {}
                                    ELSE {s \in Refreshes : Unwritten(s)} \cup {r})
         \/ refresh' = [refresh EXCEPT ![r].pc = "denied"] /\ UNCHANGED raced
  BY DEF CheckRefresh, Unwritten
<1>2. /\ refresh[r] \in RefreshState /\ clock \in Nat \ {0} /\ stats \in [version : Nat, at : Nat]
      /\ refresh \in [Refreshes -> RefreshState] /\ stats.at \in Nat /\ Cooldown \in Nat
      /\ \A s \in Refreshes : refresh[s].now \in Nat
  BY TimeAssumption DEF ChannelInv, StatisticsTyped, RefreshState
<1>3. CASE refresh' = [refresh EXCEPT ![r].pc = "denied"] /\ UNCHANGED raced
  <2>1. [refresh[r] EXCEPT !.pc = "denied"] \in RefreshState
    BY <1>2 DEF RefreshState
  <2>2. refresh' = [refresh EXCEPT ![r] = [refresh[r] EXCEPT !.pc = "denied"]]
    BY <1>2, <1>3
  <2>3. /\ StatisticsTyped' /\ refresh'[r].pc = "denied"
        /\ \A s \in Refreshes \ {r} : refresh'[s] = refresh[s]
    BY <1>1, <1>2, <2>1, <2>2, RefreshWritten DEF RefreshState
  <2>4. CooldownRemembered'
    BY <1>1, <1>3, <2>3 DEF ChannelInv, CooldownRemembered, Begun, Unwritten
  <2>5. CooldownKept'
    BY <1>3, <2>3 DEF ChannelInv, CooldownKept
  <2>6. UncrossedIsFresh'
    BY <1>1, <2>3 DEF ChannelInv, UncrossedIsFresh
  <2>7. QED
    BY <2>3, <2>4, <2>5, <2>6 DEF ChannelInv
<1>4. CASE /\ CooledDown(clock)
           /\ refresh' = [refresh EXCEPT ![r].now = clock, ![r].pc = "merge"]
           /\ raced' = raced \cup (IF {s \in Refreshes : Unwritten(s)} = {} THEN {}
                                   ELSE {s \in Refreshes : Unwritten(s)} \cup {r})
  <2>1. [refresh[r] EXCEPT !.now = clock, !.pc = "merge"] \in RefreshState
    BY <1>2 DEF RefreshState
  <2>2. refresh' = [refresh EXCEPT ![r] = [refresh[r] EXCEPT !.now = clock, !.pc = "merge"]]
    BY <1>2, <1>4
  <2>3. /\ StatisticsTyped' /\ refresh'[r].pc = "merge" /\ refresh'[r].now = clock
        /\ \A s \in Refreshes \ {r} : refresh'[s] = refresh[s]
    BY <1>1, <1>2, <2>1, <2>2, RefreshWritten DEF RefreshState
  <2>4. /\ raced \subseteq raced'
        /\ \A s \in Refreshes : Unwritten(s) => s \in raced' /\ r \in raced'
    BY <1>4
  <2>5. ASSUME NEW s \in Refreshes \ raced', Begun(s), s # r
        PROVE  refresh[s].now + Cooldown <= clock
    <3>1. 0 < refresh[s].now /\ refresh[s].now <= stats.at
      BY <2>4, <2>5 DEF ChannelInv, CooldownRemembered
    <3>2. QED
      BY <1>2, <1>4, <3>1 DEF CooledDown
  <2>6. CooldownRemembered'
    <3>1. ASSUME NEW s \in Refreshes, (Begun(s) \/ Unwritten(s))'
          PROVE  0 < refresh'[s].now /\ refresh'[s].now <= clock'
      BY <1>1, <1>2, <2>3, <3>1 DEF ChannelInv, CooldownRemembered, Begun, Unwritten
    <3>2. ASSUME NEW s \in Refreshes \ raced', Unwritten(s)', NEW t \in Refreshes, Unwritten(t)'
          PROVE  s = t
      <4>1. s = r
        BY <2>3, <2>4, <3>2 DEF Unwritten
      <4>2. t = r
        BY <2>3, <2>4, <3>2, <4>1 DEF Unwritten
      <4>3. QED
        BY <4>1, <4>2
    <3>3. ASSUME NEW s \in Refreshes \ raced', Begun(s)'
          PROVE  /\ refresh'[s].now <= stats'.at
                 /\ \A t \in Refreshes : Unwritten(t)' => refresh'[s].now <= refresh'[t].now
      <4>1. s # r /\ refresh'[s] = refresh[s] /\ Begun(s)
        BY <2>3, <3>3 DEF Begun
      <4>2. refresh[s].now <= stats.at /\ refresh[s].now <= clock
        BY <2>4, <4>1 DEF ChannelInv, CooldownRemembered
      <4>3. ASSUME NEW t \in Refreshes, Unwritten(t)' PROVE refresh'[s].now <= refresh'[t].now
        <5>1. CASE t = r
          BY <2>3, <4>1, <4>2, <5>1
        <5>2. CASE t # r
          <6>1. Unwritten(t) /\ refresh'[t] = refresh[t]
            BY <2>3, <4>3, <5>2 DEF Unwritten
          <6>2. refresh[s].now <= refresh[t].now
            BY <2>4, <4>1, <6>1 DEF ChannelInv, CooldownRemembered
          <6>3. QED
            BY <4>1, <6>1, <6>2
        <5>3. QED
          BY <5>1, <5>2
      <4>4. QED
        BY <1>1, <4>1, <4>2, <4>3
    <3>4. QED
      BY <3>1, <3>2, <3>3 DEF CooldownRemembered
  <2>7. CooldownKept'
    <3> DEFINE On == {"merge", "write", "push", "done", "failed"}
    <3>1. SUFFICES ASSUME NEW s \in Refreshes \ raced', NEW t \in Refreshes \ raced', s # t,
                          refresh'[s].now <= refresh'[t].now,
                          refresh'[s].pc \in On, refresh'[t].pc \in On
                   PROVE  refresh'[t].now >= refresh'[s].now + Cooldown
      BY DEF CooldownKept
    <3>2. \A x \in Refreshes \ raced' : (x # r /\ refresh'[x].pc \in On) => Begun(x)
      BY <2>3, <2>4 DEF Begun, Unwritten
    <3>3. CASE s # r /\ t # r
      BY <2>3, <2>4, <3>1, <3>3 DEF ChannelInv, CooldownKept
    <3>4. CASE t = r
      BY <1>2, <2>3, <2>5, <3>1, <3>2, <3>4
    <3>5. CASE s = r
      <4>1. refresh[t].now + Cooldown <= clock /\ clock <= refresh[t].now
        BY <2>3, <2>5, <3>1, <3>2, <3>5
      <4>2. QED
        BY <1>2, <2>3, <3>1, <3>5, <4>1
    <3>6. QED
      BY <3>3, <3>4, <3>5
  <2>8. UncrossedIsFresh'
    BY <1>1, <2>3 DEF ChannelInv, UncrossedIsFresh
  <2>9. QED
    BY <2>3, <2>6, <2>7, <2>8 DEF ChannelInv
<1>5. QED
  BY <1>1, <1>3, <1>4

(* The document is read and written back: a write is later than every        *)
(* cooldown that has begun.                                                  *)
LEMMA MergeStep ==
    ASSUME ChannelInv, NEW r \in Refreshes, MergeRead(r) \/ MergeWrite(r)
    PROVE  ChannelInv' /\ (stats'.version < stats.version => crossed \ crossed' # {})
<1> USE DEF worldVars, syncVars, statsVars, streamVars, refreshVars
<1>1. /\ refresh \in [Refreshes -> RefreshState] /\ refresh[r] \in RefreshState
      /\ stats \in [version : Nat, at : Nat] /\ stats.at \in Nat /\ stats.version \in Nat
      /\ telegram.version \in Nat /\ fetch \in [Fetchers -> Nat]
      /\ \A s \in Refreshes : refresh[s].now \in Nat /\ refresh[s].version \in Nat
  BY DEF ChannelInv, StatisticsTyped, RefreshState
<1>2. r \notin Fetchers
  BY NamesAssumption
<1>3. CASE MergeRead(r)
  <2>1. /\ refresh[r].pc = "merge" /\ UNCHANGED <<clock, telegram, stats, fetch, crossed, raced>>
        /\ refresh' = [refresh EXCEPT ![r].pc = "write", ![r].version = stats.version]
    BY <1>3 DEF MergeRead
  <2>2. [refresh[r] EXCEPT !.pc = "write", !.version = stats.version] \in RefreshState
    BY <1>1 DEF RefreshState
  <2>3. refresh' = [refresh EXCEPT ![r] =
                      [refresh[r] EXCEPT !.pc = "write", !.version = stats.version]]
    BY <1>1, <2>1
  <2>4. /\ StatisticsTyped' /\ refresh'[r].pc = "write" /\ refresh'[r].version = stats.version
        /\ refresh'[r].now = refresh[r].now
        /\ \A s \in Refreshes \ {r} : refresh'[s] = refresh[s]
    <3>1. PICK x : x = [refresh[r] EXCEPT !.pc = "write", !.version = stats.version]
      OBVIOUS
    <3>2. x.pc = "write" /\ x.version = stats.version /\ x.now = refresh[r].now
      BY <1>1, <3>1 DEF RefreshState
    <3>3. x \in RefreshState /\ refresh' = [refresh EXCEPT ![r] = x]
      BY <2>2, <2>3, <3>1
    <3>4. QED
      BY <1>1, <2>1, <3>2, <3>3, RefreshWritten
  <2>5. /\ \A s \in Refreshes : refresh'[s].now = refresh[s].now
        /\ \A s \in Refreshes : (Unwritten(s)' <=> Unwritten(s)) /\ (Begun(s)' <=> Begun(s))
    BY <2>1, <2>4 DEF Unwritten, Begun
  <2>6. CooldownRemembered'
    BY <2>1, <2>5 DEF ChannelInv, CooldownRemembered
  <2>7. CooldownKept'
    BY <2>1, <2>5, CooldownStays
  <2>8. UncrossedIsFresh'
    BY <1>1, <2>1, <2>4 DEF ChannelInv, UncrossedIsFresh
  <2>9. QED
    BY <1>1, <2>1, <2>4, <2>6, <2>7, <2>8 DEF ChannelInv
<1>4. CASE MergeWrite(r)
  <2>1. /\ refresh[r].pc = "write" /\ UNCHANGED <<clock, telegram, fetch, raced>>
        /\ refresh' = [refresh EXCEPT ![r].pc = "push", ![r].version = 0]
        /\ stats' = [version |-> refresh[r].version, at |-> refresh[r].now]
        /\ crossed' = (crossed \cup {f \in Fetchers : fetch[f] # 0}
                               \cup {s \in Refreshes : refresh[s].pc = "write"}) \ {r}
    BY <1>4 DEF MergeWrite, UpsertChannelStats
  <2>2. [refresh[r] EXCEPT !.pc = "push", !.version = 0] \in RefreshState
    BY <1>1 DEF RefreshState
  <2>3. refresh' = [refresh EXCEPT ![r] = [refresh[r] EXCEPT !.pc = "push", !.version = 0]]
    BY <1>1, <2>1
  <2>4. /\ stats' \in [version : Nat, at : Nat]
        /\ stats'.version = refresh[r].version /\ stats'.at = refresh[r].now
    BY <1>1, <2>1
  <2>5. /\ StatisticsTyped' /\ refresh'[r].pc = "push" /\ refresh'[r].now = refresh[r].now
        /\ \A s \in Refreshes \ {r} : refresh'[s] = refresh[s]
    BY <1>1, <2>1, <2>2, <2>3, <2>4, RefreshWritten DEF RefreshState
  <2>6. /\ \A s \in Refreshes : refresh'[s].now = refresh[s].now
        /\ \A s \in Refreshes : Unwritten(s)' <=> Unwritten(s) /\ s # r
        /\ \A s \in Refreshes : Begun(s)' <=> Begun(s) \/ s = r
        /\ Unwritten(r)
    BY <2>1, <2>5 DEF Unwritten, Begun
  <2>7. CooldownRemembered'
    <3>1. ASSUME NEW s \in Refreshes, (Begun(s) \/ Unwritten(s))'
          PROVE  0 < refresh'[s].now /\ refresh'[s].now <= clock'
      BY <2>1, <2>6, <3>1 DEF ChannelInv, CooldownRemembered
    <3>2. ASSUME NEW s \in Refreshes \ raced', Unwritten(s)', NEW t \in Refreshes, Unwritten(t)'
          PROVE  t = s
      BY <2>1, <2>6, <3>2 DEF ChannelInv, CooldownRemembered
    <3>3. ASSUME NEW s \in Refreshes \ raced', Begun(s)'
          PROVE  /\ refresh'[s].now <= stats'.at
                 /\ \A t \in Refreshes : Unwritten(t)' => refresh'[s].now <= refresh'[t].now
      <4>1. CASE s = r
        <5>1. \A t \in Refreshes : ~Unwritten(t)'
          BY <2>1, <2>6, <3>3, <4>1 DEF ChannelInv, CooldownRemembered
        <5>2. QED
          BY <1>1, <2>4, <2>6, <4>1, <5>1
      <4>2. CASE s # r
        <5>1. Begun(s) /\ s \notin raced
          BY <2>1, <2>6, <3>3, <4>2
        <5>2. \A t \in Refreshes : Unwritten(t) => refresh[s].now <= refresh[t].now
          BY <5>1 DEF ChannelInv, CooldownRemembered
        <5>3. QED
          BY <2>4, <2>6, <5>2
      <4>3. QED
        BY <4>1, <4>2
    <3>4. QED
      BY <3>1, <3>2, <3>3 DEF CooldownRemembered
  <2>8. CooldownKept'
    BY <2>1, <2>6, CooldownStays
  <2>9. /\ \A f \in Fetchers : fetch[f] # 0 => f \in crossed'
        /\ \A s \in Refreshes \ {r} : refresh[s].pc = "write" => s \in crossed'
        /\ r \notin crossed'
    BY <1>2, <2>1
  <2>10. UncrossedIsFresh'
    BY <1>1, <2>1, <2>4, <2>5, <2>9 DEF ChannelInv, UncrossedIsFresh
  <2>11. stats'.version < stats.version => crossed \ crossed' # {}
    BY <1>1, <2>1, <2>4, <2>9 DEF ChannelInv, UncrossedIsFresh
  <2>12. QED
    BY <2>5, <2>7, <2>8, <2>10, <2>11 DEF ChannelInv
<1>5. QED
  BY <1>3, <1>4

LEMMA PushStep ==
    ASSUME ChannelInv, NEW r \in Refreshes, PushRefresh(r) PROVE ChannelInv' /\ UNCHANGED stats
<1> USE DEF worldVars, syncVars, statsVars, streamVars, refreshVars
<1>1. /\ refresh \in [Refreshes -> RefreshState] /\ refresh[r] \in RefreshState
      /\ stats \in [version : Nat, at : Nat] /\ telegram.version \in Nat
  BY DEF ChannelInv, StatisticsTyped, RefreshState
<1>2. /\ refresh[r].pc = "push" /\ UNCHANGED <<clock, telegram, stats, fetch, crossed, raced>>
      /\ \/ refresh' = [refresh EXCEPT ![r].pc = "done", ![r].want = telegram.version]
         \/ refresh' = [refresh EXCEPT ![r].pc = "failed"]
  BY DEF PushRefresh
<1>3. PICK x \in RefreshState : /\ refresh' = [refresh EXCEPT ![r] = x]
                                /\ x.pc \in {"done", "failed"} /\ x.now = refresh[r].now
  <2>1. CASE refresh' = [refresh EXCEPT ![r].pc = "done", ![r].want = telegram.version]
    <3> DEFINE x == [refresh[r] EXCEPT !.pc = "done", !.want = telegram.version]
    <3>1. x \in RefreshState /\ x.pc = "done" /\ x.now = refresh[r].now
      BY <1>1 DEF RefreshState
    <3>2. refresh' = [refresh EXCEPT ![r] = x]
      BY <1>1, <2>1
    <3> HIDE DEF x
    <3>3. QED
      BY <3>1, <3>2
  <2>2. CASE refresh' = [refresh EXCEPT ![r].pc = "failed"]
    <3> DEFINE x == [refresh[r] EXCEPT !.pc = "failed"]
    <3>1. x \in RefreshState /\ x.pc = "failed" /\ x.now = refresh[r].now
      BY <1>1 DEF RefreshState
    <3>2. refresh' = [refresh EXCEPT ![r] = x]
      BY <1>1, <2>2
    <3> HIDE DEF x
    <3>3. QED
      BY <3>1, <3>2
  <2>3. QED
    BY <1>2, <2>1, <2>2
<1>4. /\ StatisticsTyped' /\ refresh'[r].pc \in {"done", "failed"}
      /\ refresh'[r].now = refresh[r].now
      /\ \A s \in Refreshes \ {r} : refresh'[s] = refresh[s]
  BY <1>1, <1>2, <1>3, RefreshWritten
<1>5. /\ \A s \in Refreshes : refresh'[s].now = refresh[s].now
      /\ \A s \in Refreshes : (Unwritten(s)' <=> Unwritten(s)) /\ (Begun(s)' <=> Begun(s))
  BY <1>2, <1>4 DEF Unwritten, Begun
<1>6. CooldownRemembered'
  BY <1>2, <1>5 DEF ChannelInv, CooldownRemembered
<1>7. CooldownKept'
  BY <1>2, <1>5, CooldownStays
<1>8. UncrossedIsFresh'
  BY <1>2, <1>4 DEF ChannelInv, UncrossedIsFresh
<1>9. QED
  BY <1>2, <1>4, <1>6, <1>7, <1>8 DEF ChannelInv

LEMMA StatisticsStep ==
    ASSUME ChannelInv, [ChannelNext]_channelVars
    PROVE  ChannelInv' /\ (stats'.version < stats.version => crossed \ crossed' # {})
<1>1. /\ clock \in Nat /\ stats.version \in Nat /\ telegram.version \in Nat
      /\ \A r \in Refreshes : refresh[r].version \in Nat
      /\ fetch \in [Fetchers -> Nat]
  BY DEF ChannelInv, StatisticsTyped
<1>2. CASE UNCHANGED <<clock, telegram, stats, fetch, crossed, refresh, raced>>
  <2>1. StatisticsTyped' /\ UncrossedIsFresh'
    BY <1>2 DEF ChannelInv, StatisticsTyped, UncrossedIsFresh
  <2>2. QED
    BY <1>1, <1>2, <2>1, CooldownAside DEF ChannelInv
<1>3. CASE clock' = clock + 1 /\ UNCHANGED <<telegram, stats, fetch, crossed, refresh, raced>>
  <2>1. StatisticsTyped' /\ UncrossedIsFresh'
    BY <1>1, <1>3 DEF ChannelInv, StatisticsTyped, UncrossedIsFresh
  <2>2. QED
    BY <1>1, <1>3, <2>1, CooldownAside DEF ChannelInv
<1>4. CASE /\ telegram' \in [admins : SUBSET Users, version : Nat \ {0}, changes : Nat]
           /\ telegram'.version >= telegram.version
           /\ UNCHANGED <<clock, stats, fetch, crossed, refresh, raced>>
  <2>1. StatisticsTyped'
    BY <1>4 DEF ChannelInv, StatisticsTyped
  <2>2. UncrossedIsFresh'
    BY <1>1, <1>4, <2>1 DEF ChannelInv, UncrossedIsFresh
  <2>3. QED
    BY <1>1, <1>4, <2>1, <2>2, CooldownAside DEF ChannelInv
<1>5. CASE /\ fetch' = [f \in Fetchers |-> 0] /\ crossed' = crossed \ Fetchers
           /\ UNCHANGED <<clock, telegram, stats, refresh, raced>>
  <2>1. StatisticsTyped'
    BY <1>5 DEF ChannelInv, StatisticsTyped
  <2>2. UncrossedIsFresh'
    BY <1>1, <1>5, NamesAssumption DEF ChannelInv, UncrossedIsFresh
  <2>3. QED
    BY <1>1, <1>5, <2>1, <2>2, CooldownAside DEF ChannelInv
<1>6. ASSUME NEW f \in Fetchers, Fetch(f) \/ Store(f) \/ Abandon(f),
             UNCHANGED <<clock, telegram, refresh, raced>>
      PROVE  ChannelInv' /\ (stats'.version < stats.version => crossed \ crossed' # {})
  BY <1>6, FetcherStep
<1>7. ASSUME NEW r \in Refreshes, RequestStatsRefresh(r)
      PROVE  ChannelInv' /\ (stats'.version < stats.version => crossed \ crossed' # {})
  <2>1. CASE CheckRefresh(r)
    <3>1. ChannelInv' /\ UNCHANGED stats
      BY <2>1, CheckStep DEF CheckRefresh, statsVars
    <3>2. QED
      BY <1>1, <3>1
  <2>2. CASE MergeRead(r) \/ MergeWrite(r)
    BY <2>2, MergeStep
  <2>3. CASE PushRefresh(r)
    <3>1. ChannelInv' /\ UNCHANGED stats
      BY <2>3, PushStep
    <3>2. QED
      BY <1>1, <3>1
  <2>4. QED
    BY <1>7, <2>1, <2>2, <2>3 DEF RequestStatsRefresh
<1>8. StatisticsTyped
  BY DEF ChannelInv
<1>9. QED
  BY <1>2, <1>3, <1>4, <1>5, <1>6, <1>7, <1>8, ChannelEffects

(* The catalogue's requests leave the channel alone.                         *)
LEMMA ChannelSteps == ASSUME [Next]_vars PROVE [ChannelNext]_channelVars
  BY DEF Next, vars, Request, CheckListing, InsertListing, ReadForUpdate, CheckUpdate,
         CheckAdmin, UpdateListing, DeleteListing, ReadForDeal, InsertDeal, ReadDraft, MatchDraft,
         UpdateDealDraft

LEMMA ChannelInvariant == Spec => []ChannelInv
<1>1. Init => ChannelInv
  BY StatisticsInitial DEF Init
<1>2. ChannelInv /\ [Next]_vars => ChannelInv'
  BY ChannelSteps, StatisticsStep
<1>3. QED
  BY <1>1, <1>2, PTL DEF Spec

(* RequestStatsRefresh and MergeStatsRequestedAt: for any number of requests *)
(* and any interleaving with the stores of the userbot, two requests that    *)
(* were let through and did not overlap another are a cooldown apart.        *)
THEOREM CooldownIsKept == Spec => []CooldownKept
<1>1. ChannelInv => CooldownKept
  BY DEF ChannelInv
<1>2. QED
  BY <1>1, ChannelInvariant, PTL

(* UpsertChannelStats: the statistics kept go back only by the write of one  *)
(* who had read before another's write.                                      *)
THEOREM StatisticsAreKept == Spec => StatisticsKept
<1>1. ChannelInv /\ [Next]_vars
        => [stats'.version < stats.version => crossed \ crossed' # {}]_channelVars
  BY ChannelSteps, StatisticsStep
<1>2. QED
  BY <1>1, ChannelInvariant, PTL DEF Spec, StatisticsKept
=============================================================================
