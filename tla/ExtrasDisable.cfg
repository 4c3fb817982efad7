SPECIFICATION ExtrasSpec
PROPERTIES
    SqlStays
