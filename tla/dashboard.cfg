CONSTANTS
    None = None
    t1 = t1
    t2 = t2
    daily = daily
    hourly = hourly
    Thread = {t1, t2}
    Series = {daily, hourly}
    Timeframe <- MCTimeframe
    HourlyOf <- MCHourlyOf
    CacheSeconds = 1
    MaxTime = 1
    MaxWrites = 1
    Routes = {"bars", "stats", "export"}
    Asked = {daily}
    MaxRequests = 2
SPECIFICATION FairSpec
CHECK_DEADLOCK FALSE
INVARIANTS
    BarsAreCurrent
    CachesFit
    ListedIsServed
PROPERTIES
    EveryRequestAnswered
