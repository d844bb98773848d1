------------------------------- MODULE MCServices -------------------------------
(* The instances of the services, as small as their questions allow *)
EXTENDS ServiceSide

-----------------------------------------------------------------------------
(* Listings: two laptops, and a monitor, whose category has no filters of its own *)

Laptop(i, p, brand, city, spec) ==
  [id |-> i, shop |-> i % 2, words |-> {"pro"}, price |-> p, category |-> "Laptop", spec |-> spec,
   own |-> [brandName |-> brand, cityName |-> city, conditionName |-> "New", colorName |-> "black"]]
FilterRows ==
  {Laptop(1, 2, "Dell", "Lahore", [model |-> "XPS", ramCapacity |-> "8", isTouchScreen |-> "true"]),
   Laptop(2, 3, "HP", "Karachi", [model |-> "Elite", ramCapacity |-> "16"]),
   [Laptop(3, 1, "Dell", "Karachi", [screenSize |-> "32"])
      EXCEPT !.category = "TV / Monitor", !.words = {"iphone"}]}
FilterRequest(source, category, search, store, min, max) ==
  [source |-> source, category |-> category, search |-> search, store |-> store,
   min |-> min, max |-> max, values |-> <<>>]
Alphabet == <<"16", "32", "8", "Dell", "Elite", "HP", "Karachi", "Lahore", "Laptop", "New",
              "TV / Monitor", "XPS", "black", "true">>

MCFilterStarts ==
  {FilterRequest("web", "", "", None, None, None),
   FilterRequest("mobile", "Laptop", "", None, None, None),
   FilterRequest("web", "Laptop", "pro", None, None, 3),
   FilterRequest("web", "TV / Monitor", "", 1, 1, 0),
   FilterRequest("web", "Toaster", "", None, None, None),
   FilterRequest("mobile", "", "", None, 3, 2)}
MCRank == [v \in {Alphabet[i] : i \in 1 .. 14} |-> CHOOSE i \in 1 .. 14 : Alphabet[i] = v]

-----------------------------------------------------------------------------
(* Models: two variants of a laptop, a desktop without a picture, and a phone *)

ModelRow(i, name, brand, category, spec) ==
  [id |-> i, name |-> name, brand |-> brand, category |-> category, words |-> {name},
   spec |-> spec, pictured |-> category # "Desktop Computer"]
ModelRequest(source, category, search, sort) ==
  [source |-> source, category |-> category, search |-> search, sort |-> sort, values |-> <<>>]

MCModels ==
  {ModelRow(1, "XPS", "Dell", "Laptop", [ram |-> "8", hasTouchScreen |-> "true"]),
   ModelRow(2, "XPS", "Dell", "Laptop", [ram |-> "16"]),
   ModelRow(3, "Elite", "HP", "Desktop Computer", [ram |-> "16", processor |-> "i5"]),
   ModelRow(4, "iPhone", "Apple", "Mobile", [ram |-> "8", processor |-> "A15"])}
MCModelStarts ==
  {ModelRequest("web", "Laptop", "", "newest"),
   ModelRequest("mobile", "Laptop", "XPS", "launch_price_asc"),
   ModelRequest("mobile", "Desktop Computer", "", "newest"),
   ModelRequest("web", "", "", "newest"), ModelRequest("web", "Toaster", "", "newest")}
MCPerFilter == [source \in {"web", "mobile"} |-> IF source = "web" THEN 2 ELSE 1]

-----------------------------------------------------------------------------
(* Picks: two listings of one shop, one of another without a location, and one of a shop that *)
(* does not pay                                                                              *)

PickRow(i, shop, paying, city, category, featured) ==
  [id |-> i, shop |-> shop, onPayment |-> paying, located |-> i # 3, city |-> city, category |-> category,
   brand |-> "Dell", condition |-> "New", featured |-> featured, visits |-> i % 2,
   discount |-> i % 3, first |-> 9 + i]
Pick1 == PickRow(1, "s1", TRUE, "Lahore", "Laptop", TRUE)
Pick2 == PickRow(2, "s1", TRUE, "Lahore", "Laptop", FALSE)
PickRows ==
  {Pick1, Pick2, PickRow(3, "s2", TRUE, "Karachi", "Laptop", FALSE),
   PickRow(4, "s3", FALSE, "Lahore", "Mobile", FALSE)}

MCBookings ==
  {[id |-> 1, row |-> Pick1, place |-> "top"], [id |-> 2, row |-> Pick2, place |-> "top"],
   [id |-> 3, row |-> Pick1, place |-> "home"]}
MCPickRequests ==
  LET Filters == {"shop", "city", "category", "brand", "condition", "min", "max"}
      NoFilter == [f \in Filters |-> None]
      Asked(kind, count, filters) ==
        [kind |-> kind, count |-> count, place |-> None, ids |-> <<>>, of |-> Pick2,
         filters |-> filters]
  IN {Asked("random", 2, NoFilter),
      Asked("random", 3, [NoFilter EXCEPT !.shop = "s1", !.city = "Lahore", !.category = "Laptop",
                                        !.brand = "Dell", !.min = 0]),
      [Asked("featured", 3, [NoFilter EXCEPT !.city = "Lahore", !.category = "Laptop"])
         EXCEPT !.place = "plp"],
      [Asked("featured", 3, NoFilter) EXCEPT !.place = "top"],
      Asked("featured", 1, NoFilter), Asked("mostViewed", 2, NoFilter),
      Asked("discounted", 3, [NoFilter EXCEPT !.city = "Lahore"]), Asked("related", 0, NoFilter),
      [Asked("byIds", 0, NoFilter) EXCEPT !.ids = <<2, 0, 3, 2, 9>>]}

-----------------------------------------------------------------------------
(* Search: what the model may read in a message *)

MCIntents ==
  {[type |-> "laptop", min |-> 0, max |-> 0, brands |-> {"dell"}, followUp |-> FALSE],
   [type |-> None, min |-> 1, max |-> 1, brands |-> {}, followUp |-> FALSE],
   [type |-> None, min |-> 0, max |-> 0, brands |-> {}, followUp |-> TRUE]}

=============================================================================
