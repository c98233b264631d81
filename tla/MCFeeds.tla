------------------------------ MODULE MCFeeds ------------------------------
(* A price feed or a property feed is read.  Small feeds: every tree of up  *)
(* to three categories around one offer, one or two offers with one thing   *)
(* out of the ordinary; up to four ends of elements, or two items.          *)
EXTENDS FeedParser, NetlabProperties

Suppliers == DOMAIN CatalogSkuPrefix
Prefix(s) == IF s = "unknown" THEN "11" ELSE CatalogSkuPrefix[s]

Category(ids, up) == [id : ids, parent : up]
Trees ==
    UNION {[1..n -> Category({"", "a", "b"}, {"", "a", "b", "x"})] : n \in 0..2}
    \cup {[i \in 1..3 |-> [id |-> <<"a", "b", "c">>[i], parent |-> up[i]]] :
            up \in [1..3 -> {"", "a", "b", "c", "x"}]}

Plain(id) ==
    [id |-> id, category |-> {"a"}, currency |-> {"rub"}, price |-> {"7"}, quantity |-> {"5"},
     outOfProd |-> {}, barcodes |-> {}, available |-> "yes", fit |-> TRUE]
P == Plain("1")
Odd ==
    {P, Plain(""), [P EXCEPT !.fit = FALSE]}
    \cup {[P EXCEPT !.category = c] : c \in {{}, {"a", ""}, {"a", "b"}, {"x"}, {"b"}}}
    \cup {[P EXCEPT !.currency = c] : c \in {{}, {"usd"}}}
    \cup {[P EXCEPT !.price = p] : p \in {{}, {""}, {"-7"}, {"odd"}}}
    \cup {[P EXCEPT !.quantity = q, !.available = v] :
            q \in {{}, {"0"}, {"5"}, {"*"}, {"odd"}}, v \in {"none", "", "no", "yes", "odd"}}
    \cup {[P EXCEPT !.outOfProd = o] : o \in {{"yes"}, {"no"}, {"yes", "no"}}}
    \cup {[P EXCEPT !.barcodes = b] : b \in {{"e1", ""}, {"e1", "e2"}}}
Tree == <<[id |-> "a", parent |-> ""], [id |-> "b", parent |-> "a"]>>

Document(categories, offers, sound) ==
    [sound |-> sound, categories |-> categories, offers |-> offers, currencies |-> {"rub"}]
Job(s, prefix, max, doc) ==
    [supplier |-> s, prefix |-> prefix, min |-> 1, max |-> max, doc |-> doc]

MCJobs ==
    {Job(s, Prefix(s), 2, Document(tree, <<[P EXCEPT !.category = {c}]>>, TRUE)) :
        s \in Suppliers, tree \in Trees, c \in {"", "a", "b", "c"}}
    \cup {Job(s, Prefix(s), max, Document(Tree, offers, TRUE)) :
        s \in Suppliers, max \in {1, 2},
        offers \in {<<>>} \cup UNION {{<<o>>, <<o, Plain("2")>>, <<Plain("1"), o>>} : o \in Odd}}
    \cup {Job(s, prefix, 1, Document(Tree, <<P>>, sound)) :
        s \in Suppliers \cup {"unknown"}, prefix \in {"11", "31"}, sound \in BOOLEAN}

-----------------------------------------------------------------------------
Value(id, missing) == [id |-> id, missing |-> missing, valid |-> id # "odd"]
Property(id) == [tag |-> "property", id |-> id, valid |-> id # ""]
ItemEnd(id, values) == [tag |-> "item", id |-> id, values |-> values, valid |-> id # ""]
Items ==
    {ItemEnd("i1", values) : values \in
        {<<>>, <<Value("p1", TRUE)>>, <<Value("p1", FALSE), Value("p2", FALSE)>>,
         <<Value("p1", FALSE), Value("p1", TRUE)>>, <<Value("odd", FALSE)>>}}
    \cup {ItemEnd("", <<>>), ItemEnd("i2", <<Value("p2", FALSE)>>)}
Bare(tag) == [tag |-> tag]
Ends == Items \cup {Property("p1"), Property(""), Bare("properties"), Bare("items"), Bare("broken")}

Scan(ends, allow, opens) == [ends |-> ends, allowUnknown |-> allow, opens |-> opens]
NoScan == Scan(<<>>, FALSE, FALSE)
MCScans ==
    {NoScan} \cup {Scan(ends, allow, TRUE) : ends \in UNION {[1..n -> Ends] : n \in 0..3}, allow \in BOOLEAN}
    \cup {Scan(ends, allow, opens) :
            allow \in BOOLEAN, opens \in BOOLEAN,
            ends \in UNION {{<<Property("p1"), Bare("properties"), i, j, Bare("items")>>,
                            <<i, Bare("items"), Property("p1"), j, Bare("properties")>>} :
                            i \in Items, j \in Items}}

\* The other reader has nothing to do.
NoJob == CHOOSE j \in MCJobs : j.supplier = "unknown"
FeedsInit ==
    \/ ScanInit /\ scan = NoScan /\ Init
    \/ Init /\ job = NoJob /\ ScanInit
FeedsNext ==
    \/ Next /\ UNCHANGED scanVars
    \/ ScanNext /\ UNCHANGED vars
FeedsSpec == FeedsInit /\ [][FeedsNext]_<<vars, scanVars>> /\ WF_vars(Step) /\ WF_scanVars(ScanStep)
=============================================================================
