--------------------------- MODULE MCThemeDelivery ---------------------------
EXTENDS ThemeDelivery
=============================================================================
