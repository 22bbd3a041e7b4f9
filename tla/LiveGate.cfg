SPECIFICATION Spec
CONSTANTS
    MinWeeks = 2
    MinTrades = 1
    MaxWeeks = 3
    MaxOrders = 2
PROPERTY
    RefusedForACause
CHECK_DEADLOCK FALSE
