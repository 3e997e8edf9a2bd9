CONSTANTS
    o1 = o1
    o2 = o2
    p1 = p1
    p2 = p2
    c1 = c1
    c2 = c2
    None = None
    Orders <- OrderSet
    Quantity <- QuantityOf
    InitialStock = 2
    MaxRetries = 3
    PaymentIds <- OnePayment
    PaysFor <- PaysFirstOrder
    Consumers <- ConsumerSet
    MaxDeliveries = 2
SPECIFICATION Spec
INVARIANT StockReturnedOnce
CHECK_DEADLOCK FALSE
