SPECIFICATION Spec
CONSTANTS
    Offers <- MCOffers
    Listings <- MCListings
    Products = {p1, p2}
    MaxOffers = 3
    Unknown = Unknown
    Blank = Blank
    Nobody = Nobody
    s1 = s1
    s2 = s2
    s3 = s3
    e1 = e1
    e2 = e2
    m1 = m1
    x1 = x1
    x2 = x2
INVARIANT ExactSkuIsPrimary
